---- MODULE Spec2Model ----
(***************************************************************************)
(* Model of the website monitoring bot: the per-owner site registry        *)
(* (modules/storage.py), the alert state machine and the monitor loop      *)
(* (modules/notifications.py) and the command handlers that write the      *)
(* registry (modules/handlers.py).                                         *)
(*                                                                         *)
(* Time is counted in whole days.  An Optional value is a sequence of      *)
(* length 0 (None) or 1 (the value).                                       *)
(***************************************************************************)
EXTENDS Integers, Sequences, FiniteSets, TLC

VARIABLES
    now,          \* datetime.now(), in days
    config,       \* the configuration dictionary: the two threshold lists
    files,        \* data/<user_id>.json for every owner: [exists, sites]
    last_status,  \* monitor_websites' last_status dictionary
    pc,           \* where monitor_websites stands
    user_ids,     \* the owners the running cycle still has to process
    user_id,      \* the owner the running cycle is processing
    sites,        \* the list load_sites returned to the running cycle
    idx,          \* the next entry of sites the cycle checks
    status_mem,   \* per owner: the list a status_command in flight holds
    op,           \* the operation the last step performed
    last,         \* what the last check_site_status call observed and sent
    hist,         \* what has been delivered so far
    script,       \* the days-left values the SSL probe reports, per cycle
    cycle,        \* the number of cycles started
    status_runs,  \* status commands begun so far
    fn_in,        \* arguments of a call of one function on its own
    fn_out        \* its result

vars == <<now, config, files, last_status, pc, user_ids, user_id, sites, idx,
          status_mem, op, last, hist, script, cycle, status_runs, fn_in, fn_out>>

-----------------------------------------------------------------------------
(* Bounds of the model.                                                    *)

MaxLen == 4          \* longest threshold list given to get_nearest_threshold
MonCycles == 2       \* monitor cycles explored by the monitor alone
MaxSites == 2        \* entries in one owner's registry
MainCycles == 1      \* monitor cycles explored beside the handlers
MaxStatus == 1       \* status commands explored beside the handlers

-----------------------------------------------------------------------------
(* Optional values and sequences.                                          *)

None == <<>>
Some(x) == <<x>>
IsNone(o) == o = <<>>

Elems(s) == {s[i] : i \in 1..Len(s)}

NoDup(s) == \A i, j \in 1..Len(s) : i # j => s[i] # s[j]

RECURSIVE RemoveAt(_, _)
RemoveAt(s, i) ==
    IF s = <<>> THEN <<>>
    ELSE IF i = 1 THEN Tail(s)
    ELSE <<Head(s)>> \o RemoveAt(Tail(s), i - 1)

-----------------------------------------------------------------------------
(* get_nearest_threshold: sorted(thresholds, reverse=True), then the first *)
(* threshold with days_left <= threshold.                                  *)

RECURSIVE InsertDesc(_, _)
InsertDesc(x, s) ==
    IF s = <<>> THEN <<x>>
    ELSE IF x > Head(s) THEN <<x>> \o s
    ELSE <<Head(s)>> \o InsertDesc(x, Tail(s))

RECURSIVE InsertAsc(_, _)
InsertAsc(x, s) ==
    IF s = <<>> THEN <<x>>
    ELSE IF x < Head(s) THEN <<x>> \o s
    ELSE <<Head(s)>> \o InsertAsc(x, Tail(s))

RECURSIVE SortedAsc(_)
SortedAsc(s) ==
    IF s = <<>> THEN <<>> ELSE InsertAsc(Head(s), SortedAsc(Tail(s)))

RECURSIVE SortedReverse(_)
SortedReverse(s) ==
    IF s = <<>> THEN <<>> ELSE InsertDesc(Head(s), SortedReverse(Tail(s)))

RECURSIVE FirstMatch(_, _)
FirstMatch(days_left, s) ==
    IF s = <<>> THEN None
    ELSE IF days_left <= Head(s) THEN Some(Head(s))
    ELSE FirstMatch(days_left, Tail(s))

get_nearest_threshold_asc(days_left, thresholds) ==
    FirstMatch(days_left, SortedAsc(thresholds))

get_nearest_threshold(days_left, thresholds) ==
    FirstMatch(days_left, SortedReverse(thresholds))

\* Python truth value of an Optional[int]: None and 0 are false.
Truthy(o) == o # None /\ o[1] # 0

-----------------------------------------------------------------------------
(* URLs.  The text of a URL is a sequence of tokens, each standing for a  *)
(* run of characters: a scheme word, ":", "//", a host word, a port word,  *)
(* "/", a path word, "?", a query word, "#", a fragment word, a tab.       *)
(* urlparse and urlunparse work on the tokens as urllib.parse works on the *)
(* characters.                                                             *)

MAX_URL_LENGTH == 300

SchemeWords == {"http", "https", "HTTPS", "ftp"}

HostWords ==
    {"a.example", "b.example", "A.EXAMPLE", "localhost", "10.0.0.1",
     "a_b.example", "xn--mnchen-3ya.example", "<a>.example", "[bad"}

PortWords == {"80", "0", "abc", "70000"}

LongWord == "x * 300"

ControlWords == {"TAB"}

\* len() of the run of characters a token stands for
Chars(w) ==
    CASE w \in {":", "/", "?", "#", "TAB", "x", "q", "f", "0"} -> 1
      [] w \in {"//", "80"} -> 2
      [] w \in {"ftp", "abc"} -> 3
      [] w \in {"http", "[bad"} -> 4
      [] w \in {"https", "HTTPS", "70000"} -> 5
      [] w = "10.0.0.1" -> 8
      [] w \in {"a.example", "b.example", "A.EXAMPLE", "localhost"} -> 9
      [] w \in {"a_b.example", "<a>.example"} -> 11
      [] w = "xn--mnchen-3ya.example" -> 22
      [] w = LongWord -> 300

RECURSIVE TextLen(_)
TextLen(url) == IF url = <<>> THEN 0 ELSE Chars(Head(url)) + TextLen(Tail(url))

\* str.lower()
Lower(w) ==
    IF w = "HTTPS" THEN "https" ELSE IF w = "A.EXAMPLE" THEN "a.example" ELSE w

\* The first position of url holding a token of marks, 0 when there is none.
FirstIndex(url, marks) ==
    IF \E i \in 1..Len(url) : url[i] \in marks
    THEN CHOOSE i \in 1..Len(url) :
             /\ url[i] \in marks
             /\ \A k \in 1..(i - 1) : url[k] \notin marks
    ELSE 0

From(url, i) == SubSeq(url, i, Len(url))

Upto(url, i) == SubSeq(url, 1, i)

\* Tokens made of the characters urlsplit allows in a scheme, and those of
\* them that begin with a letter.
SchemeCharWords ==
    SchemeWords \cup PortWords
        \cup {"a.example", "b.example", "A.EXAMPLE", "localhost", "10.0.0.1",
              "xn--mnchen-3ya.example", "x", "q", "f"}

LetterFirstWords == SchemeCharWords \ {"10.0.0.1", "80", "0", "70000"}

\* text.partition of urlsplit: what stands before the first token of marks
\* (the whole text when there is none), and what stands after it.
Before(text, marks) ==
    IF FirstIndex(text, marks) = 0 THEN text
    ELSE Upto(text, FirstIndex(text, marks) - 1)

After(text, marks) ==
    IF FirstIndex(text, marks) = 0 THEN <<>>
    ELSE From(text, FirstIndex(text, marks) + 1)

\* urlsplit's scheme test: the text before the first ":" is not empty, begins
\* with a letter and holds scheme characters only.
HasScheme(url) ==
    /\ FirstIndex(url, {":"}) > 1
    /\ url[1] \in LetterFirstWords
    /\ \A k \in 1..Len(Before(url, {":"})) : url[k] \in SchemeCharWords

\* urlsplit after the scheme: the netloc after "//" up to the first "/", "?"
\* or "#", then fragment, query and path; ValueError for a netloc with "["
\* and no "]".
SplitRest(scheme, netloc, rest) ==
    [raises |-> \E k \in 1..Len(netloc) : netloc[k] = "[bad",
     scheme |-> scheme, netloc |-> netloc,
     path |-> Before(Before(rest, {"#"}), {"?"}),
     query |-> After(Before(rest, {"#"}), {"?"}),
     fragment |-> After(rest, {"#"})]

SplitNetloc(scheme, rest) ==
    IF rest # <<>> /\ rest[1] = "//"
    THEN SplitRest(scheme, Before(Tail(rest), {"/", "?", "#"}),
                   SubSeq(rest, Len(Before(Tail(rest), {"/", "?", "#"})) + 2, Len(rest)))
    ELSE SplitRest(scheme, <<>>, rest)

\* urllib.parse.urlparse: the scheme before the first ":", lower-cased, then
\* the rest.
urlparse(url) ==
    IF HasScheme(url)
    THEN SplitNetloc([k \in 1..Len(Before(url, {":"})) |-> Lower(url[k])],
                     After(url, {":"}))
    ELSE SplitNetloc(<<>>, url)

\* ParseResult.port: None without a port text, its number when the text is
\* digits within 0..65535, ValueError otherwise.
ParsedPort(netloc) ==
    LET c == FirstIndex(netloc, {":"})
        port == IF c = 0 THEN <<>> ELSE From(netloc, c + 1)
        number == IF port = <<"80">> THEN 80
                  ELSE IF port = <<"0">> THEN 0 ELSE 70000
    IN  IF port = <<>> THEN [raises |-> FALSE, value |-> None]
        ELSE IF port \notin {<<"80">>, <<"0">>, <<"70000">>}
        THEN [raises |-> TRUE, value |-> None]
        ELSE IF number > 65535 THEN [raises |-> TRUE, value |-> None]
        ELSE [raises |-> FALSE, value |-> Some(number)]

\* urlunparse((scheme, netloc, "", "", "", ""))
urlunparse_bare(scheme, netloc) == netloc

urlunparse(scheme, netloc) ==
    (IF scheme # <<>> THEN scheme \o <<":">> ELSE <<>>)
        \o (IF netloc # <<>> THEN <<"//">> \o netloc ELSE <<>>)

\* idna.decode(domain): the labels lower-cased, an A-label decoded to
\* Unicode; IDNAError for a code point that is not allowed in a label.
idna_decode(domain) ==
    IF Len(domain) = 1
       /\ domain[1] \in {"a.example", "b.example", "A.EXAMPLE", "localhost",
                         "10.0.0.1", "xn--mnchen-3ya.example"}
    THEN [error |-> FALSE,
          text |-> IF domain[1] = "xn--mnchen-3ya.example"
                   THEN "m(u umlaut)nchen.example" ELSE Lower(domain[1])]
    ELSE [error |-> TRUE, text |-> ""]

\* DOMAIN_REGEX.match(decoded_domain)
DOMAIN_REGEX(text) ==
    text \in {"a.example", "b.example", "localhost", "10.0.0.1"}

is_local_or_private_address(hostname) ==
    \/ hostname = <<"10.0.0.1">>
    \/ Len(hostname) = 1 /\ Lower(hostname[1]) = "localhost"

Rejected(error) ==
    [raised |-> FALSE, valid |-> FALSE, error |-> error, normalized_url |-> None]

\* validate_url from the scheme test on, over what urlparse returned.
ValidateParsed(parsed_url) ==
    IF parsed_url.raises
    THEN Rejected("Invalid URL format.")
    ELSE IF parsed_url.scheme \notin {<<"http">>, <<"https">>}
    THEN Rejected("URL scheme must be http or https.")
    ELSE IF parsed_url.netloc = <<>>
    THEN Rejected("URL must contain a domain name.")
    ELSE IF \/ parsed_url.path \notin {<<>>, <<"/">>}
            \/ parsed_url.query # <<>>
            \/ parsed_url.fragment # <<>>
    THEN Rejected("URL must contain only a domain (no path, query, or fragment).")
    ELSE IF ParsedPort(parsed_url.netloc).raises
    THEN [raised |-> TRUE, valid |-> FALSE, error |-> "ValueError",
          normalized_url |-> None]
    ELSE IF Truthy(ParsedPort(parsed_url.netloc).value)
    THEN Rejected("URL must not contain a port.")
    ELSE IF idna_decode(parsed_url.netloc).error
    THEN Rejected("Invalid domain name (Punycode error).")
    ELSE IF ~DOMAIN_REGEX(idna_decode(parsed_url.netloc).text)
    THEN Rejected("Domain contains invalid characters.")
    ELSE IF is_local_or_private_address(parsed_url.netloc)
    THEN Rejected("Local or private addresses are not allowed.")
    ELSE IF \E k \in 1..Len(parsed_url.netloc) : parsed_url.netloc[k] = "<a>.example"
    THEN Rejected("Domain contains invalid characters (<, >, ;).")
    ELSE [raised |-> FALSE, valid |-> TRUE, error |-> "",
          normalized_url |->
              Some(urlunparse(parsed_url.scheme, parsed_url.netloc))]

validate_url(url) ==
    IF TextLen(url) > MAX_URL_LENGTH
    THEN Rejected("URL is too long")
    ELSE IF \E i \in 1..Len(url) : url[i] \in ControlWords
    THEN Rejected("URL contains invalid control characters.")
    ELSE ValidateParsed(urlparse(url))

\* A registered url, as the rest of the model reads it: its scheme, its
\* netloc, and whether it holds \n, \r or \t.
Url(scheme, netloc) == [scheme |-> scheme, netloc |-> netloc, ctl |-> FALSE]

Registered(url) ==
    LET parsed_url == urlparse(url)
    IN  Url(parsed_url.scheme[1], parsed_url.netloc[1])

U1 == Url("https", "a.example")
U2 == Url("https", "b.example")

\* CONTROL_CHAR_REGEX.search(url)
HasControlChar(url) == url.ctl

\* urlparse(url).hostname
Hostname(url) == url.netloc

-----------------------------------------------------------------------------
(* Owners and the registry.                                                *)

Owners == {"A", "B"}

DefaultSettings == [show_ssl |-> TRUE, show_dns |-> TRUE, show_domain |-> TRUE]

create_new_site_config(normalized_url) ==
    [url |-> normalized_url,
     ssl_valid |-> None,
     ssl_expires |-> None,
     domain_expires |-> None,
     domain_last_checked |-> None,
     domain_notifications |-> <<>>,
     ssl_notifications |-> <<>>,
     dns_a |-> <<>>,
     dns_mx |-> <<>>,
     dns_last_checked |-> None,
     dns_records |-> <<>>,
     settings |-> DefaultSettings]

\* data/<user_id>.json
get_user_sites_path(o) == <<"data", o, ".json">>

Paths_ == {get_user_sites_path(o) : o \in Owners}

\* A file of data/: whether it exists, what json.load makes of its text
\* (JSON array, object, string, number, null, or no JSON at all), and what
\* iterating over that value yields: the entries of an array, the keys of
\* an object, the characters of a string.  An entry that is no JSON object
\* is the record NotDict.
JsonTypes == {"array", "object", "string", "number", "null", "undecodable"}

NotDict == [notdict |-> TRUE]

IsDict(item) == "notdict" \notin DOMAIN item

NoFile == [exists |-> FALSE, type |-> "array", sites |-> <<>>]

Written(list) == [exists |-> TRUE, type |-> "array", sites |-> list]

LoadDefaults_none == [dns_records |-> <<>>]

\* site.setdefault(...) of load_sites
LoadDefaults ==
    [domain_notifications |-> <<>>,
     ssl_notifications |-> <<>>,
     dns_a |-> None,
     dns_mx |-> None,
     dns_last_checked |-> None,
     dns_records |-> <<>>]

Backfill(site) ==
    [k \in DOMAIN site \cup DOMAIN LoadDefaults |->
        IF k \in DOMAIN site THEN site[k] ELSE LoadDefaults[k]]

\* The exception load_sites ends with, "none" when it returns: JSONDecodeError
\* becomes ValueError, `for site in sites` over a number or null is a
\* TypeError, an entry that is no dict, has no url, or whose url holds a
\* control character is a ValueError.
LoadError(f) ==
    IF ~f.exists THEN "none"
    ELSE IF f.type = "undecodable" THEN "ValueError"
    ELSE IF f.type \in {"number", "null"} THEN "TypeError"
    ELSE IF \E i \in 1..Len(f.sites) :
               \/ ~IsDict(f.sites[i])
               \/ "url" \notin DOMAIN f.sites[i]
               \/ HasControlChar(f.sites[i].url)
         THEN "ValueError"
    ELSE "none"

\* What load_sites returns when it returns: [] without a file, the decoded
\* value with the defaults filled in otherwise.
LoadValue(f) ==
    IF ~f.exists \/ LoadError(f) # "none" THEN <<>>
    ELSE [i \in 1..Len(f.sites) |-> Backfill(f.sites[i])]

LoadRaises(o) == LoadError(files[get_user_sites_path(o)]) # "none"

load_sites(o) == LoadValue(files[get_user_sites_path(o)])

\* save: KeyError or ValueError before anything is written when an entry has
\* no url or a url with a control character.  Otherwise open(path, "w") and
\* json.dump: a full replacement when the disk works; an OSError is logged
\* and not raised again, the file untouched when open failed, cut short when
\* the write failed.
IoOutcomes == {"ok", "open_fails", "write_fails"}

SaveRaises_never(list) == FALSE

SaveRaises(list) ==
    \E i \in 1..Len(list) :
        "url" \notin DOMAIN list[i] \/ HasControlChar(list[i].url)

Truncated == [exists |-> TRUE, type |-> "undecodable", sites |-> <<>>]

save(fs, o, list, io) ==
    IF SaveRaises(list) \/ io = "open_fails" THEN fs
    ELSE IF io = "write_fails"
    THEN [fs EXCEPT ![get_user_sites_path(o)] = Truncated]
    ELSE [fs EXCEPT ![get_user_sites_path(o)] = Written(list)]

\* get_user_ids: the owners whose file exists in data/.
get_user_ids == {o \in Owners : files[get_user_sites_path(o)].exists}

RECURSIVE Perms(_)
Perms(S) ==
    IF S = {} THEN {<<>>}
    ELSE UNION {{<<x>> \o p : p \in Perms(S \ {x})} : x \in S}

UrlsOf(list) == {list[i].url : i \in 1..Len(list)}

IndexOfUrl(list, u) ==
    IF u \in UrlsOf(list)
    THEN CHOOSE i \in 1..Len(list) :
            list[i].url = u /\ \A j \in 1..(i - 1) : list[j].url # u
    ELSE 0

-----------------------------------------------------------------------------
(* Probe results (checks.py) and notification delivery.                    *)

HttpResults ==
    {[status |-> "200 OK", error |-> None],
     [status |-> "503 Service Unavailable", error |-> None],
     [status |-> "down", error |-> Some("timeout")]}

\* "200" in status
Has200(status) == status \in {"200 OK"}

SslValid(expires) ==
    [ssl_status |-> "valid", expires |-> Some(expires), error |-> None]

SslInvalid == [ssl_status |-> "invalid", expires |-> None, error |-> Some("refused")]

WhoisOk(expires) == [success |-> TRUE, expires |-> Some(expires), error |-> None]

WhoisFailed == [success |-> FALSE, expires |-> None, error |-> Some("No expiration date found")]

Kinds == {"ssl_expiry", "domain_expiry", "website_issue", "ssl_issue"}

\* bot.send_message returns, raises TelegramBadRequest, or raises another
\* exception (network error, forbidden, flood control).
Outcomes == {"ok", "bad_request", "error"}

\* send_notification catches TelegramBadRequest only.
SendRaises(outcome) == outcome \notin {"ok", "bad_request"}

Note(kind, bucket, outcome) == [kind |-> kind, bucket |-> bucket, outcome |-> outcome]

\* f"{user_id}:{url}"
status_key_url(o, url) == <<url>>

status_key(o, url) == <<o, url>>

CacheGet(ls, key) == IF key \in DOMAIN ls THEN Some(ls[key]) ELSE None

CachePut_none(ls, key, v) == ls

CachePut(ls, key, v) == [k \in DOMAIN ls \cup {key} |-> IF k = key THEN v ELSE ls[k]]

CacheDel(ls, key) == [k \in DOMAIN ls \ {key} |-> ls[k]]

-----------------------------------------------------------------------------
(* check_site_status.  The result is the entry as the call leaves it, the  *)
(* dictionary last_status, the notifications handed to send_notification   *)
(* in order, and whether the call ended by raising.  out[k] is what        *)
(* bot.send_message does on the k-th send_notification of the call.        *)

\* The expiry warning of one kind: sent when the bucket is true in Python's
\* sense and not in the notified list; the bucket is appended once
\* send_notification has returned.
ExpiryWarning(st, kind, expires, thresholds, field, out) ==
    IF st.raised \/ expires = None THEN st
    ELSE
        LET days_left == expires[1] - now
            nearest_threshold == get_nearest_threshold(days_left, thresholds)
        IN  IF Truthy(nearest_threshold)
               /\ nearest_threshold[1] \notin Elems(st.site[field])
            THEN LET outcome == out[Len(st.sent) + 1]
                     sent == Append(st.sent, Note(kind, nearest_threshold, outcome))
                 IN  IF SendRaises(outcome)
                     THEN [st EXCEPT !.sent = sent, !.raised = TRUE]
                     ELSE [st EXCEPT !.sent = sent,
                                     !.site[field] = Append(@, nearest_threshold[1])]
            ELSE st

\* A stored time: what strptime(text, DATE_FORMAT) makes of it, or that it
\* raises ValueError.  Times are counted in days.
Stamp(t) == [parsed |-> TRUE, at |-> t]

Unparsable == [parsed |-> FALSE, at |-> 0]

\* datetime.now() - last_checked_dt < timedelta(days=1)
CheckedRecently_or_day_ago(last_checked) ==
    last_checked # None /\ last_checked[1].parsed /\ now - last_checked[1].at <= 1

CheckedRecently(last_checked) ==
    last_checked # None /\ last_checked[1].parsed /\ now - last_checked[1].at < 1

\* site.get(key) and site[key] = value on an entry that may lack the key.
Get(site, key) == IF key \in DOMAIN site THEN site[key] ELSE None

Put(site, key, value) ==
    [k \in DOMAIN site \cup {key} |-> IF k = key THEN value ELSE site[k]]

\* The domain check: skipped when domain_last_checked is less than a day old;
\* whois_run tells whether check_domain_expiration was called.
DomainCheck(st, whois) ==
    IF st.raised THEN st
    ELSE
        LET domain == Hostname(st.site.url)
            last_checked == Get(st.site, "domain_last_checked")
            should_check_domain ==
                IF CheckedRecently(last_checked) THEN FALSE ELSE TRUE
        IN  IF should_check_domain /\ domain # ""
            THEN IF whois.success
                 THEN [st EXCEPT !.site = Put(Put(@, "domain_expires", whois.expires),
                                              "domain_last_checked", Some(Stamp(now))),
                                 !.whois_run = TRUE]
                 ELSE [st EXCEPT !.whois_run = TRUE]
            ELSE st

\* `if site["domain_expires"]:` and the domain expiry warning: KeyError for
\* an entry without the key.
DomainWarning(st, out) ==
    IF st.raised THEN st
    ELSE IF "domain_expires" \notin DOMAIN st.site THEN [st EXCEPT !.raised = TRUE]
    ELSE ExpiryWarning(st, "domain_expiry", st.site.domain_expires,
                       config.DOMAIN_EXPIRY_THRESHOLD, "domain_notifications", out)

WebsiteBad(http) == http.error # None \/ ~Has200(http.status)

SslBad(ssl) == ssl.error # None \/ ssl.ssl_status # "valid"

\* One incident message: sent when its own test says so.
IssueMessage(st, kind, bad, out) ==
    IF st.raised \/ ~bad THEN st
    ELSE LET outcome == out[Len(st.sent) + 1]
         IN  [st EXCEPT !.sent = Append(@, Note(kind, None, outcome)),
                        !.raised = SendRaises(outcome)]

\* The incident stage: entered when the pair differs from the cached one; the
\* cache is written after both messages.
Incident(st, o, http, ssl, out) ==
    IF st.raised THEN st
    ELSE
        LET current_status == <<http, ssl>>
            key == status_key(o, st.site.url)
            last_site_status == CacheGet(st.last_status, key)
        IN  IF last_site_status # Some(current_status)
            THEN LET w == IssueMessage(st, "website_issue", WebsiteBad(http), out)
                     x == IssueMessage(w, "ssl_issue", SslBad(ssl), out)
                 IN  IF x.raised THEN x
                     ELSE [x EXCEPT !.last_status = CachePut(@, key, current_status)]
            ELSE st

check_site_status(o, site, http, ssl, whois, out, ls) ==
    LET S0 == {[site |-> Put(Put(site, "ssl_valid", Some(ssl.ssl_status = "valid")),
                             "ssl_expires", ssl.expires),
                last_status |-> ls,
                sent |-> <<>>,
                raised |-> FALSE,
                whois_run |-> FALSE]}
        S1 == {ExpiryWarning(st, "ssl_expiry", st.site.ssl_expires,
                   config.SSL_EXPIRY_THRESHOLD, "ssl_notifications", out) : st \in S0}
        S2 == {DomainCheck(st, whois) : st \in S1}
        S3 == {DomainWarning(st, out) : st \in S2}
        S4 == {Incident(st, o, http, ssl, out) : st \in S3}
    IN  CHOOSE r \in S4 : TRUE

-----------------------------------------------------------------------------
(* What the model records about the run, for stating properties.           *)

ExpiryKinds == {"ssl_expiry", "domain_expiry"}

IssueKinds == {"website_issue", "ssl_issue"}

Notes(sent) == {sent[i] : i \in 1..Len(sent)}

\* The expiry warnings of a call that were delivered: (owner, url, kind, bucket).
DeliveredKeys(o, url, sent) ==
    {<<o, url, n.kind, n.bucket[1]>> :
        n \in {m \in Notes(sent) : m.kind \in ExpiryKinds /\ m.outcome = "ok"}}

IssueDelivered(sent) ==
    \E n \in Notes(sent) : n.kind \in IssueKinds /\ n.outcome = "ok"

IssueSent(sent) == \E n \in Notes(sent) : n.kind \in IssueKinds

SslBuckets(sent, outcomes) ==
    {n.bucket[1] : n \in {m \in Notes(sent) :
                            m.kind = "ssl_expiry" /\ m.outcome \in outcomes}}

\* What one cycle of the monitor did: the owners get_user_ids returned, those
\* whose list was loaded, those whose load raised, the targets (owner, url)
\* of the loaded lists, the targets handed to check_site_status, the owners
\* save was called for.
NoLog == [enumerated |-> {}, loaded |-> {}, load_failed |-> {}, targets |-> {},
          checked |-> {}, saved |-> {}]

\* whois: for each target, when the monitor loop last called
\* check_domain_expiration for it.
NoHist == [delivered |-> {}, twice |-> {}, prev |-> <<>>, trace |-> <<>>,
           log |-> NoLog, whois |-> <<>>]

\* Where monitor_websites goes on when the try of an owner ends in its except
\* clause: the except is inside `for user_id in user_ids`, the next owner
\* follows.
AfterOwnerFailure_abort == "sleep"

AfterOwnerFailure_stop == "stopped"

AfterOwnerFailure == "owner"

NoOp == [name |-> "none", owner |-> "-", url |-> None]

Op(name, o, url) == [name |-> name, owner |-> o, url |-> url]

-----------------------------------------------------------------------------
(* monitor_websites.                                                       *)

MonitorIdle == /\ user_ids = <<>> /\ user_id = "-" /\ sites = <<>> /\ idx = 0

\* while True: get_user_ids(); with no owner the cycle only sleeps.  The
\* cycles are counted up to limit; limit 0 leaves them uncounted.
MonitorStart(limit, record) ==
    /\ pc = "start"
    /\ limit = 0 \/ cycle < limit
    /\ cycle' = IF limit = 0 THEN cycle ELSE cycle + 1
    /\ \E order \in Perms(get_user_ids) :
          /\ user_ids' = order
          /\ pc' = IF order = <<>> THEN "sleep" ELSE "owner"
    /\ hist' = IF record
               THEN [hist EXCEPT !.log = [NoLog EXCEPT !.enumerated = get_user_ids]]
               ELSE hist
    /\ op' = Op("monitor_start", "-", None)
    /\ UNCHANGED <<now, config, files, last_status, user_id, sites, idx,
                   status_mem, last, script, status_runs, fn_in, fn_out>>

\* for user_id in user_ids: sites = load_sites(user_id); an owner without
\* sites is passed over.
MonitorOwner(record) ==
    /\ pc = "owner"
    /\ IF user_ids = <<>>
       THEN /\ pc' = "sleep"
            /\ user_id' = "-"
            /\ sites' = <<>>
            /\ idx' = 0
            /\ UNCHANGED <<user_ids, hist>>
            /\ op' = Op("monitor_done", "-", None)
       ELSE LET o == Head(user_ids)
                loaded == load_sites(o)
            IN  /\ user_ids' = Tail(user_ids)
                /\ user_id' = o
                /\ op' = Op(IF LoadRaises(o) THEN "monitor_load_failed"
                            ELSE "monitor_load", o, None)
                /\ hist' = IF ~record THEN hist
                           ELSE IF LoadRaises(o)
                           THEN [hist EXCEPT !.log.load_failed = @ \cup {o}]
                           ELSE [hist EXCEPT
                                   !.log.loaded = @ \cup {o},
                                   !.log.targets =
                                       @ \cup {<<o, u>> : u \in UrlsOf(loaded)}]
                /\ IF LoadRaises(o)
                   THEN /\ sites' = <<>>
                        /\ idx' = 0
                        /\ pc' = AfterOwnerFailure
                   ELSE IF loaded = <<>>
                   THEN /\ sites' = <<>>
                        /\ idx' = 0
                        /\ pc' = "owner"
                   ELSE /\ sites' = loaded
                        /\ idx' = 1
                        /\ pc' = "check"
    /\ UNCHANGED <<now, config, files, last_status, status_mem, last,
                   script, cycle, status_runs, fn_in, fn_out>>

\* One await check_site_status(user_id, site, config, bot, last_status).  An
\* exception leaves the loop over the sites and the save behind: the except
\* clause of the owner's try logs it and the next owner follows.
MaxSends == 4

AllOk == [k \in 1..MaxSends |-> "ok"]

MonitorCheck(HttpSet, SslSet, WhoisSet, OutcomeSet, record, scripted) ==
    /\ pc = "check"
    /\ idx \in 1..Len(sites)
    /\ \E http \in HttpSet, ssl \in SslSet, whois \in WhoisSet :
       \E sends \in {Len(check_site_status(user_id, sites[idx], http, ssl, whois,
                                           AllOk, last_status).sent)} :
       \E out \in [1..sends -> OutcomeSet] :
       \E r \in {check_site_status(user_id, sites[idx], http, ssl, whois, out,
                                   last_status)} :
          LET url == sites[idx].url
              target == <<user_id, url>>
              keys == DeliveredKeys(user_id, url, r.sent)
              obs == [days |-> IF ssl.expires = None THEN None
                               ELSE Some(ssl.expires[1] - now),
                      attempted |-> SslBuckets(r.sent, Outcomes),
                      delivered |-> SslBuckets(r.sent, {"ok"}),
                      failed |-> \E n \in Notes(r.sent) : n.outcome # "ok"]
          IN  /\ last_status' = r.last_status
              /\ IF record
                 THEN /\ last' = Some([owner |-> user_id, url |-> url, http |-> http,
                               ssl |-> ssl,
                               before |-> CacheGet(last_status, status_key(user_id, url)),
                               sent |-> r.sent,
                               raised |-> r.raised,
                               whois_run |-> r.whois_run,
                               last_checked |-> Get(sites[idx], "domain_last_checked"),
                               whois_before |-> CacheGet(hist.whois, target),
                               fresh |-> Get(sites[idx], "ssl_valid") = None,
                               notified |-> sites[idx].ssl_notifications,
                               index |-> idx,
                               total |-> Len(sites),
                               repeat |-> CacheGet(hist.prev, target)
                                             = Some(<<http, ssl>>)])
                      /\ hist' = [hist EXCEPT
                            !.delivered = @ \cup keys,
                            !.twice = @ \cup (keys \cap hist.delivered),
                            !.prev = IF IssueDelivered(r.sent)
                                     THEN CachePut(@, target, <<http, ssl>>)
                                     ELSE CacheDel(@, target),
                            !.trace = IF scripted /\ idx = 1
                                      THEN Append(@, obs) ELSE @,
                            !.log.checked = @ \cup {target},
                            !.whois = IF r.whois_run THEN CachePut(@, target, now)
                                      ELSE @]
                 ELSE UNCHANGED <<last, hist>>
              /\ IF r.raised
                 THEN /\ pc' = AfterOwnerFailure
                      /\ sites' = <<>>
                      /\ idx' = 0
                 ELSE /\ sites' = [sites EXCEPT ![idx] = r.site]
                      /\ idx' = idx + 1
                      /\ pc' = IF idx = Len(sites) THEN "save" ELSE "check"
              /\ op' = Op("monitor_check", user_id, Some(url))
    /\ UNCHANGED <<now, config, files, user_ids, user_id, status_mem, script,
                   cycle, status_runs, fn_in, fn_out>>

\* save(user_id, sites), once the loop over the sites is through.  Whether
\* the save fails or not, the next owner follows: the lists of a cycle are
\* loaded from the files again in the next.
MonitorSave(IoSet, record) ==
    /\ pc = "save"
    /\ \E io \in IoSet :
          /\ files' = save(files, user_id, sites, io)
          /\ op' = Op(IF io = "ok" /\ ~SaveRaises(sites) THEN "monitor_save"
                      ELSE "monitor_save_failed", user_id, None)
    /\ pc' = IF SaveRaises(sites) THEN AfterOwnerFailure ELSE "owner"
    /\ sites' = <<>>
    /\ idx' = 0
    /\ hist' = IF record THEN [hist EXCEPT !.log.saved = @ \cup {user_id}] ELSE hist
    /\ UNCHANGED <<now, config, last_status, user_ids, user_id, status_mem,
                   last, script, cycle, status_runs, fn_in, fn_out>>

\* await asyncio.sleep(interval)
MonitorSleep(Elapsed) ==
    /\ pc = "sleep"
    /\ \E d \in Elapsed : now' = now + d
    /\ pc' = "start"
    /\ op' = Op("monitor_sleep", "-", None)
    /\ UNCHANGED <<config, files, last_status, user_ids, user_id, sites, idx,
                   status_mem, last, hist, script, cycle, status_runs, fn_in, fn_out>>

-----------------------------------------------------------------------------
(* The command handlers (handlers.py).  addsite_command,                   *)
(* process_add_site_url, removesite_command, remove_selected_site_callback *)
(* and toggle_section_callback do not await between load_sites and save;   *)
(* status_command awaits its probes between the two.                       *)

\* any(site["url"] == normalized_url for site in sites)
IsDuplicate_never(list, url) == FALSE

IsDuplicate(list, url) == url \in UrlsOf(list)

\* addsite_command and process_add_site_url
AddSite(o, raw) ==
    \E v \in {validate_url(raw)} :
        /\ IF ~v.valid
           THEN /\ op' = Op("add_invalid", o, None)
                /\ UNCHANGED files
           ELSE LET normalized_url == Registered(v.normalized_url[1])
                    loaded == load_sites(o)
                IN  /\ op' = Op("add", o, Some(normalized_url))
                    /\ IF IsDuplicate(loaded, normalized_url)
                       THEN UNCHANGED files
                       ELSE /\ Len(loaded) < MaxSites
                            /\ files' = save(files, o,
                                  Append(loaded, create_new_site_config(normalized_url)),
                                  "ok")
        /\ UNCHANGED <<now, config, last_status, pc, user_ids, user_id, sites,
                       idx, status_mem, last, hist, script, cycle, status_runs, fn_in, fn_out>>

\* removesite_command and remove_selected_site_callback
RemoveSite(o, raw) ==
    \E v \in {validate_url(raw)} :
        /\ IF ~v.valid
           THEN /\ op' = Op("remove_invalid", o, None)
                /\ UNCHANGED files
           ELSE LET normalized_url == Registered(v.normalized_url[1])
                    loaded == load_sites(o)
                    i == IndexOfUrl(loaded, normalized_url)
                IN  /\ op' = Op("remove", o, Some(normalized_url))
                    /\ IF i = 0
                       THEN UNCHANGED files
                       ELSE files' = save(files, o, RemoveAt(loaded, i), "ok")
        /\ UNCHANGED <<now, config, last_status, pc, user_ids, user_id, sites,
                       idx, status_mem, last, hist, script, cycle, status_runs, fn_in, fn_out>>

Sections == {"ssl", "dns", "domain"}

Flip(settings, section) ==
    IF section = "ssl" THEN [settings EXCEPT !.show_ssl = ~@]
    ELSE IF section = "dns" THEN [settings EXCEPT !.show_dns = ~@]
    ELSE IF section = "domain" THEN [settings EXCEPT !.show_domain = ~@]
    ELSE settings

\* toggle_section_callback: flips the section in every entry and saves.
ToggleSection(o, section) ==
    LET loaded == load_sites(o)
    IN  /\ op' = Op("toggle", o, None)
        /\ IF section = "site" \/ loaded = <<>>
           THEN UNCHANGED files
           ELSE files' = save(files, o,
                    [i \in 1..Len(loaded) |->
                        [loaded[i] EXCEPT !.settings = Flip(@, section)]], "ok")
        /\ UNCHANGED <<now, config, last_status, pc, user_ids, user_id, sites,
                       idx, status_mem, last, hist, script, cycle, status_runs, fn_in, fn_out>>

\* status_command up to its await asyncio.gather(*tasks): the list is loaded.
StatusBegin(o) ==
    /\ status_mem[o] = None
    /\ status_runs < MaxStatus
    /\ status_runs' = status_runs + 1
    /\ LET loaded == load_sites(o)
       IN  status_mem' = [status_mem EXCEPT ![o] =
                              IF loaded = <<>> THEN None ELSE Some(loaded)]
    /\ op' = Op("status_begin", o, None)
    /\ UNCHANGED <<now, config, files, last_status, pc, user_ids, user_id,
                   sites, idx, last, hist, script, cycle, fn_in, fn_out>>

StatusWhois_throttled(site) ==
    /\ site.settings.show_domain
    /\ Hostname(site.url) # ""
    /\ ~CheckedRecently(site.domain_last_checked)

\* Whether status_command calls check_domain_expiration for an entry.
StatusWhois(site) == site.settings.show_domain /\ Hostname(site.url) # ""

\* What status_command merges into one entry: the SSL result when show_ssl is
\* set, the WHOIS result, asked for whatever domain_last_checked says, when
\* show_domain is set.
StatusMerge(site, ssl, whois) ==
    LET a == IF site.settings.show_ssl
             THEN [site EXCEPT !.ssl_valid = Some(ssl.ssl_status = "valid"),
                               !.ssl_expires = ssl.expires]
             ELSE site
    IN  IF StatusWhois(a) /\ whois.success
        THEN [a EXCEPT !.domain_expires = whois.expires,
                       !.domain_last_checked = Some(Stamp(now))]
        ELSE a

\* status_command after the gather: merge, answer, save(user_id, sites).
StatusEnd(o, SslResults, WhoisResults, record) ==
    /\ status_mem[o] # None
    /\ LET held == status_mem[o][1]
       IN  /\ \E ssl \in [1..Len(held) -> SslResults],
                 whois \in [1..Len(held) -> WhoisResults] :
                 files' = save(files, o,
                     [i \in 1..Len(held) |-> StatusMerge(held[i], ssl[i], whois[i])],
                     "ok")
           /\ last' = IF record
                      THEN Some([owner |-> o, held |-> held,
                                 whois_run |-> [i \in 1..Len(held) |->
                                                   StatusWhois(held[i])]])
                      ELSE last
    /\ status_mem' = [status_mem EXCEPT ![o] = None]
    /\ op' = Op("status", o, None)
    /\ UNCHANGED <<now, config, last_status, pc, user_ids, user_id, sites, idx,
                   hist, script, cycle, status_runs, fn_in, fn_out>>

-----------------------------------------------------------------------------
(* Specifications.                                                         *)

\* load_config's defaults: "30,15,7,1" for both lists.
DefaultThresholds == <<30, 15, 7, 1>>

DefaultConfig == [SSL_EXPIRY_THRESHOLD |-> DefaultThresholds,
                  DOMAIN_EXPIRY_THRESHOLD |-> DefaultThresholds]

InitCommon ==
    /\ now = 0
    /\ config = DefaultConfig
    /\ last_status = <<>>
    /\ pc = "start"
    /\ MonitorIdle
    /\ status_mem = [o \in Owners |-> None]
    /\ op = NoOp
    /\ last = None
    /\ hist = NoHist
    /\ cycle = 0
    /\ status_runs = 0
    /\ fn_in = [days_left |-> 0, thresholds |-> <<>>]
    /\ fn_out = None

EmptyData == [p \in Paths_ |-> NoFile]

HealthyOr503 ==
    {[status |-> "200 OK", error |-> None],
     [status |-> "503 Service Unavailable", error |-> None]}

\* One owner's handlers beside the monitor loop, from an empty data
\* directory, over two registrable urls.
Init ==
    /\ InitCommon
    /\ files = EmptyData
    /\ script = <<>>

AddInputs ==
    {<<"https", ":", "//", "a.example">>,
     <<"https", ":", "//", "a.example", "/">>,
     <<"https", ":", "//", "b.example">>,
     <<"ftp", ":", "//", "a.example">>}

\* The handlers, for owners whose file load_sites can read.
Handlers(Os, Raws, Secs, SslSet, WhoisSet, record) ==
    \/ \E o \in Os, raw \in Raws : ~LoadRaises(o) /\ AddSite(o, raw)
    \/ \E o \in Os, raw \in Raws : ~LoadRaises(o) /\ RemoveSite(o, raw)
    \/ \E o \in Os, section \in Secs : ~LoadRaises(o) /\ ToggleSection(o, section)
    \/ \E o \in Os : ~LoadRaises(o) /\ StatusBegin(o)
    \/ \E o \in Os : StatusEnd(o, SslSet, WhoisSet, record)

Monitor(limit, HttpSet, SslSet, WhoisSet, OutcomeSet, Elapsed, IoSet, record, scripted) ==
    \/ MonitorStart(limit, record)
    \/ MonitorOwner(record)
    \/ MonitorCheck(HttpSet, SslSet, WhoisSet, OutcomeSet, record, scripted)
    \/ MonitorSave(IoSet, record)
    \/ MonitorSleep(Elapsed)

Next ==
    \/ Handlers({"A"}, AddInputs, {"site"}, {SslValid(now + 400)}, {WhoisFailed},
                FALSE)
    \/ Monitor(MainCycles, HealthyOr503, {SslValid(now + 400)}, {WhoisFailed},
               {"ok", "error"}, {0}, {"ok"}, FALSE, FALSE)

Spec == Init /\ [][Next]_vars

\* Two owners' handlers beside the monitor loop, over one registrable url.
IsoInputs == {<<"https", ":", "//", "a.example">>}

NextIso ==
    \/ Handlers(Owners, IsoInputs, {"ssl"}, {SslValid(now + 400)}, {WhoisFailed},
                FALSE)
    \/ Monitor(MainCycles, {[status |-> "200 OK", error |-> None]},
               {SslValid(now + 400)}, {WhoisFailed}, {"ok"}, {0}, {"ok"}, FALSE, FALSE)

SpecIso == Init /\ [][NextIso]_vars

\* The monitor loop alone over one owner's registry of two sites.
InitMon ==
    /\ InitCommon
    /\ files = [p \in Paths_ |->
                  IF p = get_user_sites_path("A")
                  THEN Written(<<create_new_site_config(U1),
                                 create_new_site_config(U2)>>)
                  ELSE NoFile]
    /\ script = <<>>

NextMon ==
    Monitor(MonCycles, HealthyOr503, {SslValid(now + 20), SslInvalid}, {WhoisFailed},
            Outcomes, {0}, {"ok"}, TRUE, FALSE)

SpecMon == InitMon /\ [][NextMon]_vars

\* The monitor loop over one site, the SSL probe reporting a valid
\* certificate with the days left that a script lists cycle by cycle.
Scripts == {<<32, 29, 20, 10>>, <<32, 29, 10, 5, 1>>}

InitScen ==
    /\ InitCommon
    /\ files = [p \in Paths_ |->
                  IF p = get_user_sites_path("A")
                  THEN Written(<<create_new_site_config(U1)>>)
                  ELSE NoFile]
    /\ script \in Scripts

ScriptSsl == {SslValid(now + script[cycle])}

NextScen ==
    Monitor(Len(script), HealthyOr503, ScriptSsl, {WhoisFailed}, {"ok", "error"},
            {0}, {"ok"}, TRUE, TRUE)

SpecScen == InitScen /\ [][NextScen]_vars

\* Calls of get_nearest_threshold.
ThresholdValues == {-7, 0, 1, 7, 15, 30}

DaysValues == {-8, -7, -1, 0, 1, 2, 5, 7, 8, 10, 15, 16, 30, 31, 40}

ThresholdLists == UNION {[1..n -> ThresholdValues] : n \in 0..MaxLen}

InitFn ==
    /\ now = 0
    /\ config = DefaultConfig
    /\ last_status = <<>>
    /\ pc = "start"
    /\ MonitorIdle
    /\ status_mem = [o \in Owners |-> None]
    /\ op = NoOp
    /\ last = None
    /\ hist = NoHist
    /\ cycle = 0
    /\ status_runs = 0
    /\ files = [p \in Paths_ |-> NoFile]
    /\ script = <<>>
    /\ fn_in \in [days_left : DaysValues, thresholds : ThresholdLists]
    /\ fn_out = None

CallNearest ==
    /\ fn_out = None
    /\ fn_out' = Some(get_nearest_threshold(fn_in.days_left, fn_in.thresholds))
    /\ UNCHANGED <<now, config, files, last_status, pc, user_ids, user_id,
                   sites, idx, status_mem, op, last, hist, script, cycle, status_runs,
                   fn_in>>

NextFn == CallNearest

SpecFn == InitFn /\ [][NextFn]_vars

\* save and load_sites called on their own: save(user_id, targets) over what
\* the owner's file held, then load_sites(user_id); or load_sites alone.
CtlUrl == [scheme |-> "https", netloc |-> "a.example", ctl |-> TRUE]

Entries ==
    {create_new_site_config(U1),
     [url |-> U2],
     [url |-> U1, ssl_notifications |-> <<30>>, dns_a |-> <<>>],
     [url |-> CtlUrl],
     [ssl_valid |-> None],
     NotDict}

EntryLists == UNION {[1..n -> Entries] : n \in 0..MaxSites}

FileContents ==
    {NoFile}
        \cup {Written(list) : list \in EntryLists}
        \cup {[exists |-> TRUE, type |-> t, sites |-> keys] :
                 t \in {"object", "string"}, keys \in {<<>>, <<NotDict>>}}
        \cup {[exists |-> TRUE, type |-> t, sites |-> <<>>] :
                 t \in {"number", "null", "undecodable"}}

StoreOwner == "A"

InitStore ==
    /\ now = 0
    /\ config = DefaultConfig
    /\ last_status = <<>>
    /\ pc = "start"
    /\ MonitorIdle
    /\ status_mem = [o \in Owners |-> None]
    /\ op = NoOp
    /\ last = None
    /\ hist = NoHist
    /\ cycle = 0
    /\ status_runs = 0
    /\ script = <<>>
    /\ \E f \in FileContents :
          files = [p \in Paths_ |->
                      IF p = get_user_sites_path(StoreOwner) THEN f ELSE NoFile]
    /\ fn_in \in [fn : {"save"}, targets : EntryLists, io : IoOutcomes]
                    \cup [fn : {"load"}, targets : {<<>>}, io : {"ok"}]
    /\ fn_out = None

CallSave ==
    /\ fn_in.fn = "save"
    /\ fn_out = None
    /\ files' = save(files, StoreOwner, fn_in.targets, fn_in.io)
    /\ fn_out' = Some([step |-> "saved",
                       raised |-> SaveRaises(fn_in.targets),
                       before |-> files[get_user_sites_path(StoreOwner)]])
    /\ UNCHANGED <<now, config, last_status, pc, user_ids, user_id, sites, idx,
                   status_mem, op, last, hist, script, cycle, status_runs, fn_in>>

CallLoad ==
    /\ \/ fn_in.fn = "load" /\ fn_out = None
       \/ fn_in.fn = "save" /\ fn_out # None /\ fn_out[1].step = "saved"
    /\ LET f == files[get_user_sites_path(StoreOwner)]
       IN  fn_out' = Some([step |-> "loaded",
                           raised |-> fn_out # None /\ fn_out[1].raised,
                           before |-> f,
                           error |-> LoadError(f),
                           type |-> IF f.exists THEN f.type ELSE "array",
                           value |-> load_sites(StoreOwner)])
    /\ UNCHANGED <<now, config, files, last_status, pc, user_ids, user_id, sites,
                   idx, status_mem, op, last, hist, script, cycle, status_runs,
                   fn_in>>

NextStore == CallSave \/ CallLoad

SpecStore == InitStore /\ [][NextStore]_vars

\* The monitor loop over two owners with the same url, every probe healthy
\* and every notification delivered, on a disk whose writes can fail; owner
\* A's file may be unreadable from the start.
InitIo ==
    /\ InitCommon
    /\ script = <<>>
    /\ \E f \in {Written(<<create_new_site_config(U1)>>), Truncated} :
          files = [p \in Paths_ |->
                      IF p = get_user_sites_path("A") THEN f
                      ELSE Written(<<create_new_site_config(U1)>>)]

NextIo ==
    Monitor(MonCycles, {[status |-> "200 OK", error |-> None]},
            {SslValid(now + 20)}, {WhoisFailed}, {"ok"}, {0}, IoOutcomes, TRUE,
            FALSE)

SpecIo == InitIo /\ [][NextIo]_vars

\* The monitor loop without a bound on its cycles, with failing probes,
\* deliveries, loads and saves, from an empty data directory or from the
\* files of InitIo.
InitLive ==
    /\ InitCommon
    /\ script = <<>>
    /\ \E f \in {NoFile, Written(<<create_new_site_config(U1)>>), Truncated} :
          files = [p \in Paths_ |->
                      IF p = get_user_sites_path("A") THEN f
                      ELSE IF f = NoFile THEN NoFile
                      ELSE Written(<<create_new_site_config(U1)>>)]

NextLive ==
    Monitor(0, HealthyOr503, {SslValid(now + 20)}, {WhoisFailed},
            {"ok", "error"}, {0}, IoOutcomes, FALSE, FALSE)

\* Every probe, delivery and sleep returns: the loop takes its next step.
SpecLive == InitLive /\ [][NextLive]_vars /\ WF_vars(NextLive)

\* The monitor loop and the status command over one owner's single entry,
\* with days passing between the cycles and a WHOIS lookup that succeeds or
\* fails; the entry starts never checked, checked today, or with a
\* domain_last_checked that does not parse, and with or without a hostname.
WhoisSites ==
    {[create_new_site_config(u) EXCEPT !.domain_last_checked = c] :
        u \in {U1, Url("https", "")},
        c \in {None, Some(Stamp(0)), Some(Unparsable)}}

InitWhois ==
    /\ InitCommon
    /\ script = <<>>
    /\ \E site \in WhoisSites :
          files = [p \in Paths_ |->
                      IF p = get_user_sites_path("A") THEN Written(<<site>>)
                      ELSE NoFile]

NextWhois ==
    \/ ToggleSection("A", "domain")
    \/ StatusBegin("A")
    \/ StatusEnd("A", {SslValid(400)}, {WhoisOk(400), WhoisFailed}, TRUE)
    \/ Monitor(MonCycles, {[status |-> "200 OK", error |-> None]},
               {SslValid(400)}, {WhoisOk(400), WhoisFailed}, {"ok"}, {0, 1, 2},
               {"ok"}, TRUE, FALSE)

SpecWhois == InitWhois /\ [][NextWhois]_vars

\* The monitor loop over two sites whose certificate and domain are far from
\* expiry: the only notifications are those of the incident stage.
NextCache ==
    Monitor(MonCycles, HealthyOr503, {SslValid(60), SslInvalid},
            {WhoisOk(400)}, Outcomes, {0}, {"ok"}, TRUE, FALSE)

SpecCache == InitMon /\ [][NextCache]_vars

\* The monitor loop beside the status command and the SSL toggle over one
\* site whose certificate is either 20 days from expiry or renewed: the
\* status command and the monitor cycle each hold the list they loaded
\* across their awaits.
InitRenew ==
    /\ InitCommon
    /\ script = <<>>
    /\ files = [p \in Paths_ |->
                  IF p = get_user_sites_path("A")
                  THEN Written(<<create_new_site_config(U1)>>)
                  ELSE NoFile]

NextRenew ==
    \/ ToggleSection("A", "ssl")
    \/ StatusBegin("A")
    \/ StatusEnd("A", {SslValid(20), SslValid(400)}, {WhoisFailed}, FALSE)
    \/ Monitor(MonCycles, {[status |-> "200 OK", error |-> None]},
               {SslValid(20), SslValid(400)}, {WhoisFailed}, {"ok"}, {0},
               {"ok"}, TRUE, FALSE)

SpecRenew == InitRenew /\ [][NextRenew]_vars

\* The monitor loop over registries load_sites accepts and whose entries
\* were not all written by this program: an entry with its url alone, one
\* with a url and a domain_last_checked of today, one with a url and a
\* domain_expires, and a full one.  The WHOIS lookup succeeds or fails, and a
\* day may pass between the cycles.
SparseEntries ==
    {[url |-> U1],
     [url |-> U2, domain_last_checked |-> Some(Stamp(0))],
     [url |-> U1, domain_expires |-> Some(400)],
     create_new_site_config(U2)}

SparseLists == UNION {[1..n -> SparseEntries] : n \in 1..MaxSites}

InitSparse ==
    /\ InitCommon
    /\ script = <<>>
    /\ \E list \in SparseLists :
          files = [p \in Paths_ |->
                      IF p = get_user_sites_path("A") THEN Written(list)
                      ELSE NoFile]

NextSparse ==
    Monitor(MonCycles, {[status |-> "200 OK", error |-> None]}, {SslValid(400)},
            {WhoisOk(400), WhoisFailed}, {"ok"}, {0, 1}, {"ok"}, TRUE, FALSE)

SpecSparse == InitSparse /\ [][NextSparse]_vars

\* The monitor loop beside addsite_command and removesite_command of one
\* owner over one url, the site answering 200 or 503.
NextReadd ==
    \/ \E raw \in IsoInputs : AddSite("A", raw)
    \/ \E raw \in IsoInputs : RemoveSite("A", raw)
    \/ Monitor(MonCycles, HealthyOr503, {SslValid(now + 400)}, {WhoisFailed},
               {"ok"}, {0}, {"ok"}, TRUE, FALSE)

SpecReadd == InitRenew /\ [][NextReadd]_vars

\* addsite_command and toggle_section_callback of one owner, from an empty
\* data directory, over two registrable urls and every section button.
NextSettings ==
    \/ \E raw \in AddInputs : AddSite("A", raw)
    \/ \E section \in Sections \cup {"site"} : ToggleSection("A", section)

SpecSettings == Init /\ [][NextSettings]_vars

\* The handlers as Telegram calls them: an update carries the id of the chat
\* it came from and the id of the user who caused it.  In a private chat the
\* two are equal; in a group they differ.  The commands take the owner from
\* message.chat.id, the button callbacks from callback_query.from_user.id.
Updates == {[chat |-> "A", from_user |-> "A"], [chat |-> "B", from_user |-> "A"]}

listsites_command(update) ==
    /\ op' = Op("listsites", update.chat, None)
    /\ UNCHANGED <<now, config, files, last_status, pc, user_ids, user_id, sites,
                   idx, status_mem, last, hist, script, cycle, status_runs, fn_in,
                   fn_out>>

addsite_command(update, raw) == AddSite(update.chat, raw)

removesite_command(update, raw) == RemoveSite(update.chat, raw)

remove_selected_site_callback(update, raw) == RemoveSite(update.from_user, raw)

toggle_section_callback(update, section) == ToggleSection(update.from_user, section)

\* One user in one chat, private or group, kept in fn_in: the commands and
\* the buttons of that chat in any order, from an empty data directory.
InitGroup ==
    /\ now = 0
    /\ config = DefaultConfig
    /\ last_status = <<>>
    /\ pc = "start"
    /\ MonitorIdle
    /\ status_mem = [o \in Owners |-> None]
    /\ op = NoOp
    /\ last = None
    /\ hist = NoHist
    /\ cycle = 0
    /\ status_runs = 0
    /\ script = <<>>
    /\ files = EmptyData
    /\ fn_in \in Updates
    /\ fn_out = None

NextGroup ==
    \/ listsites_command(fn_in)
    \/ \E raw \in AddInputs : addsite_command(fn_in, raw)
    \/ \E raw \in AddInputs : removesite_command(fn_in, raw)
    \/ \E raw \in AddInputs : remove_selected_site_callback(fn_in, raw)
    \/ \E section \in {"ssl", "site"} : toggle_section_callback(fn_in, section)

SpecGroup == InitGroup /\ [][NextGroup]_vars

\* send_notification(bot, config, message): the chat bot.send_message is
\* called with, config["GROUP_ID"] in group mode and config["USER_ID"]
\* otherwise.
chat_id(cfg) == IF cfg.NOTIFICATION_MODE = "group" THEN cfg.GROUP_ID ELSE cfg.USER_ID

\* What load_config returns for NOTIFICATION_MODE, GROUP_ID and USER_ID, with
\* the default thresholds: user mode with the id of one of the owners, or
\* group mode with the id of a group.
NotifyConfigs ==
    {[SSL_EXPIRY_THRESHOLD |-> DefaultThresholds,
      DOMAIN_EXPIRY_THRESHOLD |-> DefaultThresholds,
      NOTIFICATION_MODE |-> m, GROUP_ID |-> "G", USER_ID |-> u] :
        m \in {"group", "user"}, u \in Owners}

\* The monitor loop over two owners with one site each, the sites answering
\* 200 or 503, under each of these configurations.
InitNotify ==
    /\ now = 0
    /\ config \in NotifyConfigs
    /\ last_status = <<>>
    /\ pc = "start"
    /\ MonitorIdle
    /\ status_mem = [o \in Owners |-> None]
    /\ op = NoOp
    /\ last = None
    /\ hist = NoHist
    /\ cycle = 0
    /\ status_runs = 0
    /\ script = <<>>
    /\ files = [p \in Paths_ |->
                  IF p = get_user_sites_path("A")
                  THEN Written(<<create_new_site_config(U1)>>)
                  ELSE Written(<<create_new_site_config(U2)>>)]
    /\ fn_in = [days_left |-> 0, thresholds |-> <<>>]
    /\ fn_out = None

NextNotify ==
    Monitor(MonCycles, HealthyOr503, {SslValid(now + 400)}, {WhoisFailed}, {"ok"},
            {0}, {"ok"}, TRUE, FALSE)

SpecNotify == InitNotify /\ [][NextNotify]_vars

\* The monitor loop over one site under the threshold lists load_config
\* accepts, 0 and negative numbers among them, the certificate five days
\* from expiry or expiring within the day, and every notification delivered.
ZeroThresholds == {DefaultThresholds, <<0>>, <<7, 0>>, <<0, -1>>, <<-1>>}

InitZero ==
    /\ now = 0
    /\ \E thresholds \in ZeroThresholds :
          config = [SSL_EXPIRY_THRESHOLD |-> thresholds,
                    DOMAIN_EXPIRY_THRESHOLD |-> thresholds]
    /\ last_status = <<>>
    /\ pc = "start"
    /\ MonitorIdle
    /\ status_mem = [o \in Owners |-> None]
    /\ op = NoOp
    /\ last = None
    /\ hist = NoHist
    /\ cycle = 0
    /\ status_runs = 0
    /\ script = <<>>
    /\ files = [p \in Paths_ |->
                  IF p = get_user_sites_path("A")
                  THEN Written(<<create_new_site_config(U1)>>)
                  ELSE NoFile]
    /\ fn_in = [days_left |-> 0, thresholds |-> <<>>]
    /\ fn_out = None

NextZero ==
    Monitor(MonCycles, {[status |-> "200 OK", error |-> None]},
            {SslValid(now + 5), SslValid(now)}, {WhoisFailed},
            {"ok"}, {0}, {"ok"}, TRUE, FALSE)

SpecZero == InitZero /\ [][NextZero]_vars

\* validate_url on its own, over texts put together from a scheme prefix, a
\* host, a port, a path, a query, a fragment and a tab, then once more on
\* the normalized url it returned.
UrlParts ==
    [prefix : {<<>>} \cup {<<w, ":", "//">> : w \in SchemeWords},
     host : {<<>>} \cup {<<w>> : w \in HostWords},
     port : {<<>>, <<":">>} \cup {<<":", w>> : w \in PortWords},
     path : {<<>>, <<"/">>, <<"/", "x">>, <<"/", LongWord>>},
     query : {<<>>, <<"?", "q">>},
     fragment : {<<>>, <<"#", "f">>},
     ctl : {<<>>, <<"TAB">>}]

Compose(parts) ==
    parts.prefix \o parts.host \o parts.port \o parts.path \o parts.ctl
        \o parts.query \o parts.fragment

InitUrl ==
    /\ now = 0
    /\ config = DefaultConfig
    /\ last_status = <<>>
    /\ pc = "start"
    /\ MonitorIdle
    /\ status_mem = [o \in Owners |-> None]
    /\ op = NoOp
    /\ last = None
    /\ hist = NoHist
    /\ cycle = 0
    /\ status_runs = 0
    /\ script = <<>>
    /\ files = EmptyData
    /\ \E parts \in UrlParts : fn_in = [parts |-> parts, url |-> Compose(parts)]
    /\ fn_out = None

CallValidate ==
    /\ fn_out = None
    /\ fn_out' = Some([step |-> "validated", first |-> validate_url(fn_in.url),
                       second |-> validate_url(fn_in.url)])
    /\ UNCHANGED <<now, config, files, last_status, pc, user_ids, user_id, sites,
                   idx, status_mem, op, last, hist, script, cycle, status_runs,
                   fn_in>>

CallValidateAgain ==
    /\ fn_out # None
    /\ fn_out[1].step = "validated"
    /\ fn_out[1].first.valid
    /\ fn_out' = Some([fn_out[1] EXCEPT
                       !.step = "revalidated",
                       !.second = validate_url(fn_out[1].first.normalized_url[1])])
    /\ UNCHANGED <<now, config, files, last_status, pc, user_ids, user_id, sites,
                   idx, status_mem, op, last, hist, script, cycle, status_runs,
                   fn_in>>

NextUrl == CallValidate \/ CallValidateAgain

SpecUrl == InitUrl /\ [][NextUrl]_vars

-----------------------------------------------------------------------------
(* load_config.  The text of an environment variable is a sequence of      *)
(* tokens: a number word, "-", ",", " ", "#" and words that are no number;  *)
(* an unset variable is None.                                              *)

NumberWords == {"0", "1", "5", "7", "15", "30", "60", "3600"}

IntOf(w) ==
    CASE w = "0" -> 0 [] w = "1" -> 1 [] w = "5" -> 5 [] w = "7" -> 7
      [] w = "15" -> 15 [] w = "30" -> 30 [] w = "60" -> 60 [] w = "3600" -> 3600

\* os.getenv(name, default)
getenv(env, name, default) == IF env[name] = None THEN default ELSE env[name][1]

\* text.split("#")[0]
BeforeHash(text) ==
    LET h == FirstIndex(text, {"#"})
    IN  IF h = 0 THEN text ELSE Upto(text, h - 1)

\* str.strip()
RECURSIVE Strip(_)
Strip(text) ==
    IF text # <<>> /\ Head(text) = " " THEN Strip(Tail(text))
    ELSE IF text # <<>> /\ text[Len(text)] = " " THEN Strip(Upto(text, Len(text) - 1))
    ELSE text

\* int(text): an optional sign and digits, blanks around them ignored;
\* ValueError for anything else.
int(text) ==
    LET t == Strip(text)
    IN  IF Len(t) = 1 /\ t[1] \in NumberWords
        THEN [error |-> FALSE, value |-> IntOf(t[1])]
        ELSE IF Len(t) = 2 /\ t[1] = "-" /\ t[2] \in NumberWords
        THEN [error |-> FALSE, value |-> 0 - IntOf(t[2])]
        ELSE [error |-> TRUE, value |-> 0]

\* text.split(",")
RECURSIVE Split(_)
Split(text) ==
    LET c == FirstIndex(text, {","})
    IN  IF c = 0 THEN <<text>>
        ELSE <<Upto(text, c - 1)>> \o Split(From(text, c + 1))

\* [int(x) for x in text.split(",")]
IntList(text) ==
    LET parts == Split(text)
    IN  IF \E i \in 1..Len(parts) : int(parts[i]).error
        THEN [error |-> TRUE, value |-> <<>>]
        ELSE [error |-> FALSE, value |-> [i \in 1..Len(parts) |-> int(parts[i]).value]]

ConfigError(message) == [raised |-> TRUE, error |-> message, config |-> None]

load_config(env) ==
    LET mode == Strip(BeforeHash(getenv(env, "NOTIFICATION_MODE", <<"group">>)))
        interval == int(Strip(BeforeHash(getenv(env, "CHECK_INTERVAL", <<"3600">>))))
        domain == IntList(Strip(BeforeHash(getenv(env, "DOMAIN_EXPIRY_THRESHOLD",
                      <<"30", ",", "15", ",", "7", ",", "1">>))))
        ssl == IntList(Strip(BeforeHash(getenv(env, "SSL_EXPIRY_THRESHOLD",
                   <<"30", ",", "15", ",", "7", ",", "1">>))))
    IN  IF getenv(env, "BOT_TOKEN", <<>>) = <<>>
        THEN ConfigError("BOT_TOKEN is required")
        ELSE IF mode \notin {<<"group">>, <<"user">>}
        THEN ConfigError("NOTIFICATION_MODE must be 'group' or 'user'")
        ELSE IF mode = <<"group">> /\ getenv(env, "GROUP_ID", <<>>) = <<>>
        THEN ConfigError("GROUP_ID is required when NOTIFICATION_MODE is 'group'")
        ELSE IF mode = <<"user">> /\ getenv(env, "USER_ID", <<>>) = <<>>
        THEN ConfigError("USER_ID is required when NOTIFICATION_MODE is 'user'")
        ELSE IF interval.error
        THEN ConfigError("CHECK_INTERVAL must be a valid integer")
        ELSE IF domain.error
        THEN ConfigError("DOMAIN_EXPIRY_THRESHOLD must be comma-separated integers")
        ELSE IF ssl.error
        THEN ConfigError("SSL_EXPIRY_THRESHOLD must be comma-separated integers")
        ELSE IF /\ getenv(env, "TOPIC_ID", <<>>) # <<>>
                /\ int(Strip(BeforeHash(getenv(env, "TOPIC_ID", <<>>)))).error
        THEN ConfigError("TOPIC_ID must be a valid integer")
        ELSE IF /\ getenv(env, "USER_ID", <<>>) # <<>>
                /\ int(getenv(env, "USER_ID", <<>>)).error
        THEN ConfigError("USER_ID must be a valid integer")
        ELSE [raised |-> FALSE, error |-> "",
              config |-> Some([NOTIFICATION_MODE |-> mode[1],
                               CHECK_INTERVAL |-> interval.value,
                               DOMAIN_EXPIRY_THRESHOLD |-> domain.value,
                               SSL_EXPIRY_THRESHOLD |-> ssl.value])]

\* Start-up on its own: load_config over the texts of the .env file, then,
\* when it returned, the monitor loop reaching its
\* await asyncio.sleep(interval).
Environments ==
    [BOT_TOKEN : {None, Some(<<"token">>)},
     NOTIFICATION_MODE : {None, Some(<<"user">>), Some(<<"channel">>)},
     GROUP_ID : {None, Some(<<"-", "5">>)},
     USER_ID : {None, Some(<<"7">>), Some(<<"me">>)},
     TOPIC_ID : {None, Some(<<"15", " ", "#", "topic">>), Some(<<"general">>)},
     CHECK_INTERVAL : {None, Some(<<"60">>), Some(<<"60", " ", "#", "seconds">>),
                       Some(<<"0">>), Some(<<"-", "5">>), Some(<<"soon">>),
                       Some(<<>>)},
     DOMAIN_EXPIRY_THRESHOLD : {None, Some(<<"30", ",", "x">>)},
     SSL_EXPIRY_THRESHOLD : {None, Some(<<"15", ",", " ", "7">>)}]

InitConfig ==
    /\ now = 0
    /\ config = DefaultConfig
    /\ last_status = <<>>
    /\ pc = "start"
    /\ MonitorIdle
    /\ status_mem = [o \in Owners |-> None]
    /\ op = NoOp
    /\ last = None
    /\ hist = NoHist
    /\ cycle = 0
    /\ status_runs = 0
    /\ script = <<>>
    /\ files = EmptyData
    /\ \E env \in Environments : fn_in = [env |-> env]
    /\ fn_out = None

CallLoadConfig ==
    /\ fn_out = None
    /\ fn_out' = Some([step |-> "loaded", result |-> load_config(fn_in.env)])
    /\ UNCHANGED <<now, config, files, last_status, pc, user_ids, user_id, sites,
                   idx, status_mem, op, last, hist, script, cycle, status_runs,
                   fn_in>>

\* monitor_websites(bot, config, config["CHECK_INTERVAL"]) with no owner to
\* process, at its await asyncio.sleep(interval).
MonitorSleepsInterval ==
    /\ fn_out # None
    /\ fn_out[1].step = "loaded"
    /\ ~fn_out[1].result.raised
    /\ config' = [SSL_EXPIRY_THRESHOLD |-> fn_out[1].result.config[1].SSL_EXPIRY_THRESHOLD,
                  DOMAIN_EXPIRY_THRESHOLD |->
                      fn_out[1].result.config[1].DOMAIN_EXPIRY_THRESHOLD]
    /\ fn_out' = Some([fn_out[1] EXCEPT !.step = "sleeping"])
    /\ pc' = "sleep"
    /\ UNCHANGED <<now, files, last_status, user_ids, user_id, sites,
                   idx, status_mem, op, last, hist, script, cycle, status_runs,
                   fn_in>>

NextConfig == CallLoadConfig \/ MonitorSleepsInterval

SpecConfig == InitConfig /\ [][NextConfig]_vars

-----------------------------------------------------------------------------
(* The chat flow.  The message handlers of the router in the order of      *)
(* their registration: an event goes to the first handler whose filters    *)
(* accept it, and a handler without a state filter accepts every state.    *)

BOT_COMMANDS == {"start", "status", "listsites", "addsite", "removesite", "settings"}

AnyState == "*"

Handler(name, state, commands, text) ==
    [name |-> name, state |-> state, commands |-> commands, text |-> text]

MessageHandlers ==
    <<Handler("start_command", AnyState, {"start"}, FALSE),
      Handler("settings_command", AnyState, {"settings"}, FALSE),
      Handler("status_command", AnyState, {"status"}, FALSE),
      Handler("listsites_command", AnyState, {"listsites"}, FALSE),
      Handler("handle_commands_in_add_state", "AddSiteState.url", BOT_COMMANDS, FALSE),
      Handler("process_add_site_url", "AddSiteState.url", {}, TRUE),
      Handler("addsite_command", AnyState, {"addsite"}, FALSE),
      Handler("removesite_command", AnyState, {"removesite"}, FALSE),
      Handler("handle_commands_in_remove_state", "RemoveSiteState.select",
              BOT_COMMANDS, FALSE)>>

\* A message: its command, if it begins with one, and the text after it.
CommandMessage(command, arg) == [command |-> Some(command), arg |-> arg]

TextMessage(text) == [command |-> None, arg |-> text]

\* The filters of a handler: its state, then Command(...) or F.text.
Accepts(h, message, state) ==
    /\ h.state \in {AnyState, state}
    /\ \/ h.text
       \/ message.command # None /\ message.command[1] \in h.commands

\* The handler an observer triggers: the first that accepts, "" when none.
Dispatch(message, state) ==
    IF \E i \in 1..Len(MessageHandlers) : Accepts(MessageHandlers[i], message, state)
    THEN MessageHandlers[CHOOSE i \in 1..Len(MessageHandlers) :
             /\ Accepts(MessageHandlers[i], message, state)
             /\ \A k \in 1..(i - 1) : ~Accepts(MessageHandlers[k], message, state)].name
    ELSE ""

\* The registry after an url was asked to be added or removed: v is what
\* validate_url returned, loaded what load_sites returned.
AddValidated(fs, o, v, loaded) ==
    IF ~v.valid \/ IsDuplicate(loaded, Registered(v.normalized_url[1])) THEN fs
    ELSE save(fs, o,
              Append(loaded, create_new_site_config(Registered(v.normalized_url[1]))),
              "ok")

Added(fs, o, url) ==
    AddValidated(fs, o, validate_url(url), LoadValue(fs[get_user_sites_path(o)]))

RemoveValidated(fs, o, v, loaded) ==
    IF ~v.valid \/ IndexOfUrl(loaded, Registered(v.normalized_url[1])) = 0 THEN fs
    ELSE save(fs, o,
              RemoveAt(loaded, IndexOfUrl(loaded, Registered(v.normalized_url[1]))),
              "ok")

Removed(fs, o, url) ==
    RemoveValidated(fs, o, validate_url(url), LoadValue(fs[get_user_sites_path(o)]))

\* What one message handler does to the flow state of the chat and to the
\* registry, and whether it ends with router.propagate_event.
Handled(name, o, message, state, fs) ==
    LET loaded == LoadValue(fs[get_user_sites_path(o)])
        same == [state |-> state, files |-> fs, propagate |-> FALSE]
    IN  CASE name \in {"handle_commands_in_add_state",
                       "handle_commands_in_remove_state"}
                 -> [state |-> "Idle", files |-> fs, propagate |-> TRUE]
          [] name = "process_add_site_url"
                 -> IF validate_url(message.arg).valid
                    THEN [same EXCEPT !.state = "Idle",
                                      !.files = Added(fs, o, message.arg)]
                    ELSE same
          [] name = "addsite_command" /\ message.arg # <<>>
                 -> [same EXCEPT !.files = Added(fs, o, message.arg)]
          [] name = "removesite_command" /\ message.arg # <<>>
                 -> [same EXCEPT !.files = Removed(fs, o, message.arg)]
          [] name = "status_command" /\ loaded # <<>>
                 -> [same EXCEPT !.files = save(fs, o,
                        [i \in 1..Len(loaded) |->
                            StatusMerge(loaded[i], SslValid(400), WhoisFailed)], "ok")]
          [] OTHER -> same

Chat == fn_out[1]

\* The chat of owner o after its message went through the handlers named in
\* handled and left b.
Delivered(o, message, handled, b) ==
    /\ files' = b.files
    /\ fn_out' = Some([fsm |-> [Chat.fsm EXCEPT ![o] = b.state],
                       event |-> "message",
                       chat |-> o,
                       message |-> message,
                       before |-> Chat.fsm[o],
                       handled |-> handled])
    /\ UNCHANGED <<now, config, last_status, pc, user_ids, user_id, sites, idx,
                   status_mem, op, last, hist, script, cycle, status_runs,
                   fn_in>>

\* router.propagate_event: the message is dispatched again, in the state the
\* first handler left.
Propagated(o, message, first, a) ==
    IF a.propagate
    THEN Delivered(o, message, <<first, Dispatch(message, a.state)>>,
                   Handled(Dispatch(message, a.state), o, message, a.state, a.files))
    ELSE Delivered(o, message, <<first>>, a)

\* A message arrives in the chat of owner o.
ReceiveMessage(o, message) ==
    Propagated(o, message, Dispatch(message, Chat.fsm[o]),
               Handled(Dispatch(message, Chat.fsm[o]), o, message, Chat.fsm[o], files))

\* A button is pressed: add_site, cancel_add_site, remove_site,
\* remove:<url>, cancel_remove_site.
PressButton(o, data, url) ==
    LET loaded == load_sites(o)
        state == CASE data = "add_site" -> "AddSiteState.url"
                   [] data = "remove_site" /\ loaded # <<>> -> "RemoveSiteState.select"
                   [] OTHER -> "Idle"
    IN  /\ files' = IF data = "remove" THEN Removed(files, o, url) ELSE files
        /\ fn_out' = Some([fsm |-> [Chat.fsm EXCEPT ![o] = state],
                           event |-> data,
                           chat |-> o,
                           message |-> TextMessage(<<>>),
                           before |-> Chat.fsm[o],
                           handled |-> <<data>>])
        /\ UNCHANGED <<now, config, last_status, pc, user_ids, user_id, sites, idx,
                       status_mem, op, last, hist, script, cycle, status_runs,
                       fn_in>>

TextA == <<"https", ":", "//", "a.example">>

Messages ==
    {CommandMessage(c, <<>>) : c \in BOT_COMMANDS}
        \cup {CommandMessage("addsite", TextA), CommandMessage("removesite", TextA),
              TextMessage(TextA), TextMessage(<<"https", ":", "//", "b.example", "/">>),
              TextMessage(<<"ftp", ":", "//", "a.example">>)}

InitChat ==
    /\ now = 0
    /\ config = DefaultConfig
    /\ last_status = <<>>
    /\ pc = "start"
    /\ MonitorIdle
    /\ status_mem = [o \in Owners |-> None]
    /\ op = NoOp
    /\ last = None
    /\ hist = NoHist
    /\ cycle = 0
    /\ status_runs = 0
    /\ script = <<>>
    /\ files = EmptyData
    /\ fn_in = [days_left |-> 0, thresholds |-> <<>>]
    /\ fn_out = Some([fsm |-> [o \in Owners |-> "Idle"], event |-> "", chat |-> "-",
                      message |-> TextMessage(<<>>), before |-> "Idle",
                      handled |-> <<>>])

NextChat ==
    \/ \E message \in Messages : ReceiveMessage("A", message)
    \/ \E data \in {"add_site", "cancel_add_site", "remove_site",
                     "cancel_remove_site"} : PressButton("A", data, <<>>)
    \/ PressButton("A", "remove", TextA)

SpecChat == InitChat /\ [][NextChat]_vars

-----------------------------------------------------------------------------
(* check_website_status under @retry(stop=stop_after_attempt(3)): tenacity *)
(* calls the function again when the call ended by an exception.           *)

stop_after_attempt == 3

\* What session.get does in one attempt: a response, or an exception of
\* the transport.
HttpOutcomes ==
    {"200 OK", "404 Not Found", "503 Service Unavailable", "ClientConnectorError",
     "TimeoutError"}

HttpThrows(outcome) == outcome \in {"ClientConnectorError", "TimeoutError"}

\* The body of check_website_status: every exception of session.get is
\* caught by `except Exception` and turned into a result.
WebsiteStatusBody(url, outcome) ==
    IF is_local_or_private_address(<<Hostname(url)>>)
    THEN [raised |-> FALSE, asked |-> FALSE,
          result |-> [status |-> "down",
                      error |-> Some("Local or private addresses are not allowed.")]]
    ELSE IF HttpThrows(outcome)
    THEN [raised |-> FALSE, asked |-> TRUE,
          result |-> [status |-> "down", error |-> Some(outcome)]]
    ELSE [raised |-> FALSE, asked |-> TRUE,
          result |-> [status |-> outcome, error |-> None]]

InitHttp ==
    /\ now = 0
    /\ config = DefaultConfig
    /\ last_status = <<>>
    /\ pc = "start"
    /\ MonitorIdle
    /\ status_mem = [o \in Owners |-> None]
    /\ op = NoOp
    /\ last = None
    /\ hist = NoHist
    /\ cycle = 0
    /\ status_runs = 0
    /\ script = <<>>
    /\ files = EmptyData
    /\ fn_in \in [url : {U1, Url("http", "localhost")},
                  outcomes : [1..stop_after_attempt -> HttpOutcomes]]
    /\ fn_out = Some([attempts |-> 0, requests |-> 0, done |-> FALSE,
                      result |-> [status |-> "unknown", error |-> None]])

\* One attempt of the retrying call: the attempt is the last when the body
\* returned or stop_after_attempt is reached.
AttemptWebsiteStatus ==
    /\ ~fn_out[1].done
    /\ fn_out[1].attempts < stop_after_attempt
    /\ LET attempt == fn_out[1].attempts + 1
           r == WebsiteStatusBody(fn_in.url, fn_in.outcomes[attempt])
       IN  fn_out' = Some([attempts |-> attempt,
                           requests |-> fn_out[1].requests + (IF r.asked THEN 1 ELSE 0),
                           done |-> ~r.raised \/ attempt = stop_after_attempt,
                           result |-> r.result])
    /\ UNCHANGED <<now, config, files, last_status, pc, user_ids, user_id, sites,
                   idx, status_mem, op, last, hist, script, cycle, status_runs,
                   fn_in>>

NextHttp == AttemptWebsiteStatus

SpecHttp == InitHttp /\ [][NextHttp]_vars

-----------------------------------------------------------------------------
(* Properties.                                                             *)

Checked == last # None

\* C1: over monitor cycles, no expiry warning is delivered twice for the same
\* (owner, target, kind, bucket): a delivered bucket is in the notified list
\* of every later cycle.
C1_AtMostOncePerBucket == hist.twice = {}

\* C2: a check sends incident messages exactly when the probe pair differs
\* from the cached pair of (owner, url), or there is none, and the HTTP probe
\* or the SSL probe reports something wrong.
C2_IncidentIff ==
    Checked =>
        (IssueSent(last[1].sent)
            <=> /\ last[1].before # Some(<<last[1].http, last[1].ssl>>)
                /\ (WebsiteBad(last[1].http) \/ SslBad(last[1].ssl)))

\* C3: when a target's probe pair is the one of its previous check, and that
\* check delivered an incident message, this check sends none.
C3_OnlyFirstOfRun ==
    (Checked /\ last[1].repeat) => ~IssueSent(last[1].sent)

Called == fn_out # None

C5_Scenario ==
    script = <<32, 29, 20, 10>> =>
        /\ Len(hist.trace) >= 1 => hist.trace[1].attempted = {}
        /\ Len(hist.trace) >= 2 => hist.trace[2].attempted = {30}
        /\ (Len(hist.trace) >= 3 /\ hist.trace[2].delivered = {30})
              => hist.trace[3].attempted = {}
        /\ (Len(hist.trace) >= 4 /\ hist.trace[2].delivered = {30})
              => hist.trace[4].attempted = {}

\* C6: with SSL days-left declining 32, 29, 10, 5, 1 over five cycles and no
\* delivery failing, each of the buckets 30, 15, 7 and 1 has had its warning
\* once the five cycles are through.
C6_AllFourBuckets ==
    (/\ script = <<32, 29, 10, 5, 1>>
     /\ Len(hist.trace) = 5
     /\ \A k \in 1..5 : ~hist.trace[k].failed)
        => UNION {hist.trace[k].delivered : k \in 1..5} = {30, 15, 7, 1}

Registry(o) == files[get_user_sites_path(o)]

\* C7: a step taken for one owner (add, remove, toggle, status, the
\* monitor's load, check and save) leaves every other owner's file, with its
\* notified lists, and every other owner's last_status entries as they were.
C7_OwnerIsolation ==
    [][\A b \in Owners :
          op'.owner # b =>
              /\ Registry(b)' = Registry(b)
              /\ \A u \in {U1, U2} :
                    CacheGet(last_status', status_key(b, u))
                        = CacheGet(last_status, status_key(b, u))]_vars

C7_Witness ==
    /\ op.name = "monitor_check"
    /\ op.owner = "A"
    /\ U1 \in UrlsOf(Registry("A").sites)
    /\ U1 \in UrlsOf(Registry("B").sites)
    /\ CacheGet(last_status, status_key("A", U1)) # None
    /\ CacheGet(last_status, status_key("B", U1)) = None

\* C8: no owner's file ever holds two entries of one url, and an add whose
\* normalized url is in the owner's file leaves every file as it was.
C8_UrlUnique ==
    /\ [](\A o \in Owners :
            Registry(o).exists =>
                NoDup([i \in 1..Len(Registry(o).sites) |-> Registry(o).sites[i].url]))
    /\ [][(/\ op'.name = "add"
           /\ op'.url[1] \in UrlsOf(load_sites(op'.owner)))
             => files' = files]_vars

\* An add of U1 that found an entry of U1 the monitor or the status command
\* had already written its SSL result into.
C8_Witness ==
    /\ op.name = "add"
    /\ op.url = Some(U1)
    /\ Len(Registry("A").sites) = 2
    /\ \E i \in 1..2 :
          /\ Registry("A").sites[i].url = U1
          /\ Registry("A").sites[i].ssl_valid # None

\* C9: a check of a target that is not the owner's last is followed by the
\* check of the owner's next target, whatever happened in it.
C9_SiblingsChecked ==
    (Checked /\ op.name = "monitor_check" /\ last[1].index < last[1].total)
        => (pc = "check" /\ idx = last[1].index + 1)

\* C10: a check in which a delivery failed does not end by raising: the
\* monitor goes on to the owner's next target or to the save.
C10_DeliveryFailureSwallowed ==
    (/\ Checked
     /\ op.name = "monitor_check"
     /\ \E n \in Notes(last[1].sent) : n.outcome # "ok")
        => (~last[1].raised /\ pc \in {"check", "save"})

Saved == fn_out # None /\ fn_in.fn = "save" /\ fn_out[1].step = "saved"

Loaded == fn_out # None /\ fn_out[1].step = "loaded"

\* C15: save with a target whose url holds a control character raises and
\* leaves the owner's file as it was.
C15_ControlCharWritesNothing ==
    (/\ Saved
     /\ \E i \in 1..Len(fn_in.targets) :
           /\ "url" \in DOMAIN fn_in.targets[i]
           /\ HasControlChar(fn_in.targets[i].url))
        => /\ fn_out[1].raised
           /\ Registry(StoreOwner) = fn_out[1].before

C15_Witness ==
    /\ Saved
    /\ fn_in.targets = <<[url |-> CtlUrl]>>
    /\ fn_in.io = "ok"
    /\ fn_out[1].raised
    /\ Registry(StoreOwner) = Written(<<create_new_site_config(U1)>>)

HistoryAndDnsFields ==
    {"domain_notifications", "ssl_notifications", "dns_a", "dns_mx",
     "dns_last_checked", "dns_records"}

\* C16: load_sites after a save that accepted its list and wrote it returns
\* the list, each entry with its own fields as saved and the notification
\* and DNS fields it lacked empty; load_sites without a file returns [].
C16_RoundTrip ==
    Loaded =>
        /\ (fn_in.fn = "save" /\ ~fn_out[1].raised /\ fn_in.io = "ok") =>
              /\ fn_out[1].error = "none"
              /\ Len(fn_out[1].value) = Len(fn_in.targets)
              /\ \A i \in 1..Len(fn_in.targets) :
                    LET given == fn_in.targets[i]
                        got == fn_out[1].value[i]
                    IN  /\ DOMAIN got = DOMAIN given \cup HistoryAndDnsFields
                        /\ \A k \in DOMAIN given : got[k] = given[k]
                        /\ \A k \in HistoryAndDnsFields \ DOMAIN given :
                              got[k] = <<>>
        /\ (fn_in.fn = "load" /\ ~fn_out[1].before.exists) =>
              /\ fn_out[1].error = "none"
              /\ fn_out[1].value = <<>>

C16_Witness ==
    /\ Loaded
    /\ fn_in.fn = "save"
    /\ fn_in.io = "ok"
    /\ fn_in.targets = <<[url |-> U2]>>
    /\ fn_out[1].value[1].url = U2
    /\ fn_out[1].value[1].ssl_notifications = <<>>

\* C17: load_sites ends with an error whenever the file's content is no JSON,
\* is no list, or holds an entry that is no object, has no url, or has a url
\* with a control character.
C17_MalformedRaises ==
    (/\ Loaded
     /\ fn_out[1].before.exists
     /\ \/ fn_out[1].before.type # "array"
        \/ \E i \in 1..Len(fn_out[1].before.sites) :
              LET item == fn_out[1].before.sites[i]
              IN  \/ ~IsDict(item)
                  \/ "url" \notin DOMAIN item
                  \/ HasControlChar(item.url))
        => fn_out[1].error # "none"

\* C11: when the load or the save of one owner fails in a cycle, no other
\* owner's file changes in that step, and by the end of the cycle every
\* owner get_user_ids returned has been loaded, every target of a loaded list
\* has been checked and save has been called for its owner.
C11_OtherOwnersProcessed ==
    /\ [](pc = "sleep" =>
            /\ \A o \in hist.log.enumerated :
                  o \in hist.log.loaded \cup hist.log.load_failed
            /\ \A t \in hist.log.targets :
                  t \in hist.log.checked /\ t[1] \in hist.log.saved)
    /\ [][op'.name \in {"monitor_load_failed", "monitor_save_failed"} =>
             \A b \in Owners \ {op'.owner} : Registry(b)' = Registry(b)]_vars

C11_Witness ==
    /\ pc = "sleep"
    /\ "A" \in hist.log.load_failed
    /\ <<"B", U1>> \in hist.log.checked
    /\ "B" \in hist.log.saved
    /\ Registry("B").sites[1].ssl_valid = Some(TRUE)

\* C12: whatever failed in a cycle, and also without any owner, the loop
\* sleeps and starts another cycle: a cycle starts infinitely often.
C12_LoopForever == []<><<MonitorStart(0, FALSE)>>_vars

C12_Witness ==
    /\ op.name = "monitor_start"
    /\ pc = "owner"
    /\ Registry("A") = Truncated
    /\ Registry("B") = Truncated

\* C13: a save of the monitor, failed or not, leaves the owner's file either
\* as it was or holding the whole new list.
C13_AllOrNothing ==
    [][op'.name \in {"monitor_save", "monitor_save_failed"} =>
          Registry(user_id)' \in {Registry(user_id), Written(sites)}]_vars

\* C14: no expiry warning delivered in a cycle is delivered again in a later
\* one, the save of its cycle having failed or not.
C14_NotSentAgainAfterFailedSave ==
    \A key \in hist.delivered : key \notin hist.twice

\* C18: in the monitor loop the WHOIS probe of a target is run exactly when
\* the target has a hostname and its domain_last_checked is unset, does not
\* parse, or is more than 24 hours old; checked 24 hours ago or less, the
\* probe is skipped.
C18_WhoisOncePerDay ==
    (Checked /\ op.name = "monitor_check" /\ ~last[1].raised) =>
        LET last_checked == last[1].last_checked
        IN  last[1].whois_run <=>
                /\ Hostname(last[1].url) # ""
                /\ \/ last_checked = None
                   \/ ~last_checked[1].parsed
                   \/ now - last_checked[1].at > 1

\* C18, amended: in the monitor loop the WHOIS probe of a target is run
\* exactly when the target has a hostname and its domain_last_checked is
\* unset, does not parse, or is 24 hours old or older; it is skipped only when
\* the target was checked less than 24 hours ago.
C18_WhoisSkippedWithinDay ==
    (Checked /\ op.name = "monitor_check" /\ ~last[1].raised) =>
        LET last_checked == last[1].last_checked
        IN  last[1].whois_run <=>
                /\ Hostname(last[1].url) # ""
                /\ \/ last_checked = None
                   \/ ~last_checked[1].parsed
                   \/ now - last_checked[1].at >= 1

\* A target checked exactly one day ago is probed again.
C18_Witness ==
    /\ Checked
    /\ op.name = "monitor_check"
    /\ ~last[1].raised
    /\ last[1].last_checked # None
    /\ last[1].last_checked[1].parsed
    /\ now - last[1].last_checked[1].at = 1
    /\ last[1].whois_run

\* C20: last_status is empty when the process starts, and after every check
\* of a target in the monitor loop that completes, the entry of (owner, url)
\* is the pair of website status and SSL status observed by that check,
\* whether or not a notification was sent.
C20_CacheHoldsObservedPair ==
    /\ op = NoOp => last_status = <<>>
    /\ (Checked /\ op.name = "monitor_check" /\ ~last[1].raised) =>
           CacheGet(last_status, status_key(last[1].owner, last[1].url))
               = Some(<<last[1].http, last[1].ssl>>)

\* A healthy first check sends nothing and still records the pair.
C20_Witness ==
    /\ Checked
    /\ op.name = "monitor_check"
    /\ ~last[1].raised
    /\ last[1].before = None
    /\ last[1].sent = <<>>
    /\ last[1].http.status = "200 OK"
    /\ last[1].ssl.ssl_status = "valid"
    /\ CacheGet(last_status, status_key(last[1].owner, last[1].url))
           = Some(<<last[1].http, last[1].ssl>>)

\* C19 as stated: the status command runs the WHOIS probe for every target
\* that has a hostname.
C19_StatusAlwaysProbes ==
    (Checked /\ op.name = "status") =>
        \A i \in 1..Len(last[1].held) :
            Hostname(last[1].held[i].url) # "" => last[1].whois_run[i]

\* C19, amended: the status command runs the WHOIS probe for every target
\* that has a hostname and whose show_domain setting is on, whatever its
\* domain_last_checked says, and for no other target.
C19_StatusProbesShownDomains ==
    (Checked /\ op.name = "status") =>
        \A i \in 1..Len(last[1].held) :
            last[1].whois_run[i] <=>
                /\ Hostname(last[1].held[i].url) # ""
                /\ last[1].held[i].settings.show_domain

\* A status run probes a target whose domain was checked this very day.
C19_Witness ==
    /\ Checked
    /\ op.name = "status"
    /\ last[1].held[1].domain_last_checked = Some(Stamp(now))
    /\ last[1].whois_run[1]

\* C21: the notified lists of a target only grow: no monitor cycle, status
\* command or settings toggle removes a bucket from the stored
\* ssl_notifications or domain_notifications of a target, whatever the
\* observed expiry date becomes.
C21_NotifiedOnlyGrow ==
    [][\A p \in Paths_ :
          \A i \in 1..Len(files[p].sites), j \in 1..Len(files'[p].sites) :
              files[p].sites[i].url = files'[p].sites[j].url =>
                  /\ Elems(files[p].sites[i].ssl_notifications)
                         \subseteq Elems(files'[p].sites[j].ssl_notifications)
                  /\ Elems(files[p].sites[i].domain_notifications)
                         \subseteq Elems(files'[p].sites[j].domain_notifications)]_vars

Validated == fn_out # None /\ fn_out[1].step = "validated"

\* The rule of the list that a text fails first, read off the parts the text
\* was put together from.
FirstFailingRule(parts) ==
    IF TextLen(Compose(parts)) > MAX_URL_LENGTH THEN "length"
    ELSE IF parts.ctl # <<>> THEN "control character"
    ELSE IF parts.prefix = <<>> \/ Lower(parts.prefix[1]) \notin {"http", "https"}
    THEN "scheme"
    ELSE IF parts.host = <<>> THEN "empty host"
    ELSE IF parts.path \notin {<<>>, <<"/">>} THEN "path, query or fragment"
    ELSE IF parts.query # <<>> \/ parts.fragment # <<>>
    THEN "path, query or fragment"
    ELSE IF Len(parts.port) = 2 THEN "port"
    ELSE IF \/ parts.host \notin {<<"a.example">>, <<"b.example">>, <<"A.EXAMPLE">>,
                                  <<"localhost">>, <<"10.0.0.1">>}
            \/ parts.port # <<>>
    THEN "host characters"
    ELSE IF parts.host \in {<<"localhost">>, <<"10.0.0.1">>} THEN "private host"
    ELSE "none"

\* The rule a rejection reason of validate_url belongs to.
RuleOf(error) ==
    CASE error = "URL is too long" -> "length"
      [] error = "URL contains invalid control characters." -> "control character"
      [] error = "URL scheme must be http or https." -> "scheme"
      [] error = "URL must contain a domain name." -> "empty host"
      [] error = "URL must contain only a domain (no path, query, or fragment)."
             -> "path, query or fragment"
      [] error = "URL must not contain a port." -> "port"
      [] error \in {"Invalid domain name (Punycode error).",
                    "Domain contains invalid characters."} -> "host characters"
      [] error = "Local or private addresses are not allowed." -> "private host"
      [] error = "Domain contains invalid characters (<, >, ;)." -> "injection"
      [] OTHER -> "unlisted"

\* C22: validate_url rejects a text for the first rule of the list it fails
\* (length, control character, scheme, empty host, path, query or fragment,
\* port, host characters, private host, injection characters), and accepts a
\* text that fails none, returning scheme and host only.
C22_FirstFailingRuleWins ==
    Validated =>
        LET rule == FirstFailingRule(fn_in.parts)
            result == fn_out[1].first
        IN  IF rule = "none"
            THEN /\ result.valid
                 /\ result.normalized_url =
                        Some(<<Lower(fn_in.parts.prefix[1]), ":", "//">>
                                 \o fn_in.parts.host)
            ELSE /\ ~result.raised
                 /\ ~result.valid
                 /\ RuleOf(result.error) = rule

\* C23: validate_url accepts the normalized url it returned and returns it
\* unchanged.
C23_Idempotent ==
    (fn_out # None /\ fn_out[1].step = "revalidated") =>
        /\ ~fn_out[1].second.raised
        /\ fn_out[1].second.valid
        /\ fn_out[1].second.normalized_url = fn_out[1].first.normalized_url

\* An accepted text that differs from its normalized url is validated again.
C23_Witness ==
    /\ fn_out # None
    /\ fn_out[1].step = "revalidated"
    /\ fn_out[1].first.normalized_url # Some(fn_in.url)
    /\ fn_out[1].second.valid
    /\ fn_out[1].second.normalized_url = fn_out[1].first.normalized_url

\* C24: validate_url never raises, whatever the port text is, and never
\* accepts a text that carries a port.
C24_TotalAndPortFree ==
    Validated =>
        /\ ~fn_out[1].first.raised
        /\ fn_out[1].first.valid => fn_in.parts.port = <<>>

\* C25: load_config raises for every CHECK_INTERVAL that is not an integer
\* greater than 0, so the monitor loop never sleeps for a non-positive
\* interval.
C25_IntervalPositive ==
    (fn_out # None /\ fn_out[1].step = "sleeping") =>
        fn_out[1].result.config[1].CHECK_INTERVAL > 0

\* C26: a bot command that arrives while the chat is in AddSiteState.url or
\* RemoveSiteState.select leaves the flow state Idle, and the command is
\* then handled by its own handler.
C26_CommandRestartsFlow ==
    (/\ Chat.event = "message"
     /\ Chat.message.command # None
     /\ Chat.before \in {"AddSiteState.url", "RemoveSiteState.select"}) =>
        /\ Chat.fsm[Chat.chat] = "Idle"
        /\ Chat.handled[Len(Chat.handled)] = Dispatch(Chat.message, "Idle")

\* C27: in a monitor cycle the registry of every owner with targets is saved
\* once, after the last of its targets was checked, and not between the
\* checks of two of its targets.
C27_SavedOnceAfterChecks ==
    /\ (pc = "sleep" /\ cycle > 0) =>
           \A o \in hist.log.loaded :
               (\E t \in hist.log.targets : t[1] = o) => o \in hist.log.saved
    /\ pc = "check" => user_id \notin hist.log.saved

\* C28: when session.get throws, check_website_status tries again, up to 3
\* attempts, and reports "down" only when the last attempt threw; a response
\* is returned as its status line after the attempt that got it.
C28_RetriesTransportFailure ==
    (fn_out[1].done /\ ~is_local_or_private_address(<<Hostname(fn_in.url)>>)) =>
        LET n == fn_out[1].attempts
        IN  /\ \A k \in 1..(n - 1) : HttpThrows(fn_in.outcomes[k])
            /\ IF HttpThrows(fn_in.outcomes[n])
               THEN n = stop_after_attempt /\ fn_out[1].result.status = "down"
               ELSE fn_out[1].result.status = fn_in.outcomes[n]

\* C29: in a check that reaches the incident stage with a pair other than
\* the cached one, the website-issue message is sent exactly when the HTTP
\* result is bad and the SSL-issue message exactly when the SSL result is
\* bad, each whatever the other does, and the cache then holds the pair.
C29_IssueMessagesIndependent ==
    (/\ Checked
     /\ op.name = "monitor_check"
     /\ last[1].before # Some(<<last[1].http, last[1].ssl>>)
     /\ \A n \in Notes(last[1].sent) :
            n.kind \in ExpiryKinds => ~SendRaises(n.outcome)) =>
        /\ (\E n \in Notes(last[1].sent) : n.kind = "website_issue")
               <=> WebsiteBad(last[1].http)
        /\ (\E n \in Notes(last[1].sent) : n.kind = "ssl_issue")
               <=> SslBad(last[1].ssl)
        /\ CacheGet(last_status, status_key(last[1].owner, last[1].url))
               = Some(<<last[1].http, last[1].ssl>>)

\* C30: a bucket is in the notified list of a target only when its warning
\* was delivered: after a check in which the delivery of an expiry warning
\* failed, the bucket of that warning is not in the list.
C30_BucketRecordedOnlyIfSent ==
    (Checked /\ op.name = "monitor_check" /\ ~last[1].raised) =>
        \A n \in Notes(last[1].sent) :
            (n.kind = "ssl_expiry" /\ n.outcome # "ok") =>
                n.bucket[1] \notin Elems(sites[last[1].index].ssl_notifications)

\* C31: the monitor loop calls the WHOIS probe of a target at most once in
\* any 24 hours, whether the earlier call succeeded, found no expiry date or
\* failed: a call is at least a day after the loop's previous call for the
\* target.
C31_WhoisAtMostOncePerDay ==
    (/\ Checked
     /\ op.name = "monitor_check"
     /\ last[1].whois_run
     /\ last[1].whois_before # None)
        => now - last[1].whois_before[1] >= 1

\* The targets of an owner's file, each with its display settings.
Configured(o) == {<<s.url, s.settings>> : s \in Elems(Registry(o).sites)}

\* C32: what a handler added, removed or toggled for an owner while a monitor
\* cycle held that owner's list is still so after the cycle's save: the save
\* leaves the targets of the file and their display settings as it found
\* them.
C32_NoLostUpdate ==
    [][\A o \in Owners :
          (op'.name = "monitor_save" /\ op'.owner = o)
              => Configured(o)' = Configured(o)]_vars

\* C33: over a registry that load_sites accepted, no check of a monitor cycle
\* raises, whatever the WHOIS lookup returns and whether it is made or
\* skipped, and by the end of the cycle every target of the loaded list has
\* been checked and the list has been saved.
C33_AcceptedRegistryChecked ==
    /\ (Checked /\ op.name = "monitor_check") => ~last[1].raised
    /\ pc = "sleep" =>
          /\ hist.log.targets \subseteq hist.log.checked
          /\ \A o \in hist.log.loaded : o \in hist.log.saved

\* C34: a target that was removed and added again starts with a fresh alert
\* state: the first check of an entry addTarget created, when it finds the
\* site or its certificate unhealthy, sends an incident message, whatever
\* pair was observed for the url before.
C34_ReaddedStartsFresh ==
    (/\ Checked
     /\ op.name = "monitor_check"
     /\ last[1].fresh
     /\ WebsiteBad(last[1].http) \/ SslBad(last[1].ssl))
        => IssueSent(last[1].sent)

\* C35: the display settings are one per owner: the entries of an owner's
\* file all carry the same show_ssl, show_dns and show_domain, those of the
\* first entry, which the settings keyboard shows.
C35_SettingsGlobalPerOwner ==
    \A o \in Owners :
        \A i \in 1..Len(Registry(o).sites) :
            Registry(o).sites[i].settings = Registry(o).sites[1].settings

\* C36: the commands and the buttons a user uses in one chat all work on one
\* owner's registry, in a group chat as in a private one: a handler works on
\* the registry the handler before it worked on.
C36_OneRegistryPerChat ==
    [][(op.owner \in Owners /\ op'.owner \in Owners) => op'.owner = op.owner]_vars

\* C37: a notification sent in the check of a target of an owner is
\* addressed to that owner.
C37_AddressedToOwner ==
    (Checked /\ op.name = "monitor_check" /\ last[1].sent # <<>>)
        => chat_id(config) = last[1].owner

\* The notified lists of the targets of an owner's file.
AlertState(o) ==
    {<<s.url, s.ssl_notifications, s.domain_notifications>> :
        s \in Elems(Registry(o).sites)}

\* C38: the status command does not change the alert state: its save leaves
\* the ssl_notifications and domain_notifications of every target of the
\* owner's file, and the whole of last_status, as they were.
C38_StatusKeepsAlertState ==
    [][\A o \in Owners :
          (op'.name = "status" /\ op'.owner = o)
              => /\ AlertState(o)' = AlertState(o)
                 /\ last_status' = last_status]_vars

\* C39: under any list of integer thresholds, whenever get_nearest_threshold
\* returns a bucket for the certificate's days left and the bucket is not in
\* the target's ssl_notifications, the check sends the SSL expiry warning of
\* that bucket and the bucket is in the list afterwards.
C39_ReturnedBucketIsNotified ==
    (/\ Checked
     /\ op.name = "monitor_check"
     /\ ~last[1].raised
     /\ last[1].ssl.expires # None)
        => LET nearest_threshold ==
                   get_nearest_threshold(last[1].ssl.expires[1] - now,
                                         config.SSL_EXPIRY_THRESHOLD)
           IN  (/\ nearest_threshold # None
                /\ nearest_threshold[1] \notin Elems(last[1].notified))
                   => /\ \E n \in Notes(last[1].sent) :
                            n.kind = "ssl_expiry" /\ n.bucket = nearest_threshold
                      /\ nearest_threshold[1]
                            \in Elems(sites[last[1].index].ssl_notifications)

=========================================================================
